---- MODULE Spec2Model ----
(***************************************************************************)
(* Quote pricing and validation pipeline of the freight-quoting            *)
(* application: the threshold checks (app/quote/thresholds.py), the ZIP    *)
(* validator (app/quote/zip_validation.py), the rate-set and hotshot rate  *)
(* helpers (app/services/rate_sets.py, hotshot_rates.py), the form route   *)
(* new_quote and the read routes (app/quotes/routes.py), the service       *)
(* create_quote and get_quote (app/services/quote.py), the JSON API        *)
(* (app/api.py), the rate limits, the delivery loop and the dispatch log   *)
(* of send_email and the mail privileges (app/services/mail.py) and the    *)
(* quote-email route POST /send (app/__init__.py).                         *)
(*                                                                         *)
(* Units.  Weights are exact rationals with denominator DIM_DIVISOR: a     *)
(* weight value v stands for v / 166 lb, so that the dimensional weight    *)
(* (l * w * h / 166) * pieces is the integer l * w * h * pieces.  Money is *)
(* in cents.  A Python dict is a sequence of <<key, value>> pairs in       *)
(* insertion order with unique keys.                                       *)
(***************************************************************************)
EXTENDS Integers, Sequences, FiniteSets, TLC

VARIABLES
    quotes,            \* rows of the Quote table, in insertion order
    accessorialTable,  \* rows of the Accessorial table, ordered by id
    airTables,         \* the required air-rate tables that exist and have a row
    mapsApiKey,        \* GOOGLE_MAPS_API_KEY of the configuration, None when unset
    placesProvider,    \* the geocoding provider as it stands
    hotshotRates,      \* rows of the HotshotRate table, in storage order
    zipCache,          \* lru_cache of _validate_zip_with_places
    accCache,          \* lru_cache slot of _accessorial_cache
    airCache,          \* lru_cache slot of _air_rate_table_cache
    resp,              \* outcome of the last request or service call
    call,              \* last direct call of a pure helper: name and arguments
    ret,               \* value returned by that call
    mail,              \* the send_email call in progress: attempts, sleeps, warnings
    dispatchLog        \* rows of the EmailDispatchLog table, in insertion order

\* what the deployment is given
deployment == <<accessorialTable, airTables, mapsApiKey, placesProvider, hotshotRates>>

\* the per-process caches
caches == <<accCache, airCache, zipCache>>

vars == <<quotes, deployment, caches, resp, call, ret, mail, dispatchLog>>

----------------------------------------------------------------------------
(* Bounds *)

MaxQuotes == 1

\* the size of the ZIP validation cache: lru_cache(maxsize=1024) scaled down
ZipCacheMaxsize == 2

----------------------------------------------------------------------------
(* Program constants *)

DIM_DIVISOR == 166

AIR_WEIGHT_LIMIT == 1200

WEIGHT_LIMIT == 3000

TOTAL_LIMIT == 6000

AIR_PIECE_LIMIT == 300

ROUTE_GUARANTEE_PCT == 25

ZIP_LEN == 5

THRESHOLD_WARNING == "Warning! Quote exceeds the limits of this tool please call FSI directly for the most accurate quote. Main Office: 800-651-0423 | Fax: 520-777-3853 | Email: Operations@freightservices.net"

AIR_PIECE_LIMIT_WARNING == "Warning! Air freight shipments with pieces greater than 300 lbs each exceeds the limits of this tool. Please contact FSI directly for the most accurate quote. Main Office: 800-651-0423 | Fax: 520-777-3853 | Email: Operations@freightservices.net"

\* a rate-set identifier is a sequence of characters
DEFAULT_RATE_SET == <<"d", "e", "f", "a", "u", "l", "t">>

\* Python's None where the other values are strings
None == "<None>"

\* Python's None where the other values are numbers (miles)
NoNumber == -1

\* Python's None where the other values are sequences of characters
NoText == <<None>>

Lb(n) == n * DIM_DIVISOR

Dollars(n) == n * 100

Max(a, b) == IF a >= b THEN a ELSE b

----------------------------------------------------------------------------
(* Strings: str.lower, str.title and str.strip on the strings in use *)

LowerTable ==
    ("Air" :> "air") @@ ("AIR" :> "air") @@ ("Hotshot" :> "hotshot") @@
    ("Ground" :> "ground") @@ ("Liftgate" :> "liftgate") @@
    ("Guarantee" :> "guarantee") @@
    ("Guarantee Service" :> "guarantee service") @@ ("Bogus" :> "bogus") @@
    ("SUPER_ADMIN" :> "super_admin") @@ ("Quote_Email" :> "quote_email") @@
    ("Ops@Example.com" :> "ops@example.com")

Lower(s) == IF s \in DOMAIN LowerTable THEN LowerTable[s] ELSE s

TitleTable ==
    ("air" :> "Air") @@ ("AIR" :> "Air") @@ ("hotshot" :> "Hotshot") @@
    ("ground" :> "Ground")

Title(s) == IF s \in DOMAIN TitleTable THEN TitleTable[s] ELSE s

StripTable ==
    ("Liftgate " :> "Liftgate") @@ (" " :> "") @@ ("Quote_Email " :> "Quote_Email") @@
    (" ops@example.com" :> "ops@example.com")

Strip(s) == IF s \in DOMAIN StripTable THEN StripTable[s] ELSE s

\* the lower-cased strings that have "guarantee" as a substring
GuaranteeWords == {"guarantee", "guarantee service"}

ContainsGuarantee(s) == Lower(s) \in GuaranteeWords

----------------------------------------------------------------------------
(* Python dicts as insertion-ordered sequences of <<key, value>> pairs *)

DictKeys(d) == {d[i][1] : i \in 1..Len(d)}

DictGet(d, k) == (CHOOSE i \in 1..Len(d) : d[i][1] = k)

DictValue(d, k) == d[DictGet(d, k)][2]

DictSet(d, k, v) ==
    IF k \in DictKeys(d)
    THEN [d EXCEPT ![DictGet(d, k)] = <<k, v>>]
    ELSE Append(d, <<k, v>>)

RECURSIVE SumValues(_)
SumValues(d) == IF d = <<>> THEN 0 ELSE d[1][2] + SumValues(Tail(d))

----------------------------------------------------------------------------
(* app/quote/thresholds.py *)

\* variant: the air weight limit taken as inclusive
check_thresholds_inclusive(quote_type, weight, total) ==
    IF Lower(quote_type) = "air" /\ weight >= Lb(AIR_WEIGHT_LIMIT)
    THEN THRESHOLD_WARNING
    ELSE IF weight > Lb(WEIGHT_LIMIT) \/ total > Dollars(TOTAL_LIMIT)
         THEN THRESHOLD_WARNING
         ELSE ""

check_thresholds(quote_type, weight, total) ==
    IF Lower(quote_type) = "air" /\ weight > Lb(AIR_WEIGHT_LIMIT)
    THEN THRESHOLD_WARNING
    ELSE IF weight > Lb(WEIGHT_LIMIT) \/ total > Dollars(TOTAL_LIMIT)
         THEN THRESHOLD_WARNING
         ELSE ""

\* variant: the per-piece weight taken from the scale weight alone
check_air_piece_limit_actual_only(quote_type, actual_weight, pieces, dim_weight) ==
    IF Lower(quote_type) = "air" /\ pieces > 0
    THEN IF actual_weight > Lb(AIR_PIECE_LIMIT) * pieces
         THEN AIR_PIECE_LIMIT_WARNING
         ELSE None
    ELSE None

\* billable_weight / pieces > 300 with pieces > 0, cross-multiplied
check_air_piece_limit(quote_type, actual_weight, pieces, dim_weight) ==
    IF Lower(quote_type) = "air" /\ pieces > 0
    THEN LET billable_weight == Max(actual_weight, dim_weight)
         IN  IF billable_weight > Lb(AIR_PIECE_LIMIT) * pieces
             THEN AIR_PIECE_LIMIT_WARNING
             ELSE None
    ELSE None

----------------------------------------------------------------------------
(* app/quote/zip_validation.py.  A ZIP string is a sequence of characters. *)

Digits == {"0", "1", "2", "3", "4", "5", "6", "7", "8", "9"}

IsDigit(c) == c \in Digits

_sanitize_zip(zip_code) ==
    LET digits == SelectSeq(zip_code, IsDigit)
    IN  IF Len(digits) >= ZIP_LEN THEN SubSeq(digits, 1, ZIP_LEN) ELSE <<>>

\* exceptions of requests.get (timeout=10); nothing in this module catches them
TransportErrors == {"requests.Timeout", "requests.ConnectionError"}

\* a result <<is_valid, reason>>, or an exception on its way up the stack
Raised(r) == r[2] \in TransportErrors

\* the provider's answer: [ok |-> HTTP 2xx, status |-> payload status,
\*    predictions |-> main_text of each prediction, raises |-> "" or the
\*    exception requests.get raised instead of answering]
HasMatch(predictions, normalized_zip) ==
    \E i \in 1..Len(predictions) : _sanitize_zip(predictions[i]) = normalized_zip

\* whether a call with these arguments gets as far as requests.get
ReachesProvider(zip_code, api_key) == _sanitize_zip(zip_code) # <<>> /\ api_key # ""

\* the geocoding provider as it stands: whether it answers with HTTP 2xx, the
\* status it reports, the postal codes it knows, and the exception the
\* transport raises instead of an answer ("" when it answers)
Provider(http_ok, status, known) ==
    [http_ok |-> http_ok, status |-> status, known |-> known, raises |-> ""]

Unreachable(exception) ==
    [http_ok |-> FALSE, status |-> "OK", known |-> {}, raises |-> exception]

\* the autocomplete answer for a query
PlacesAnswer(provider, zip_code) ==
    LET query == _sanitize_zip(zip_code)
    IN  IF provider.status = "OK" /\ query \in provider.known
        THEN [ok |-> provider.http_ok, status |-> "OK", predictions |-> <<query>>,
              raises |-> provider.raises]
        ELSE IF provider.status = "OK"
        THEN [ok |-> provider.http_ok, status |-> "ZERO_RESULTS", predictions |-> <<>>,
              raises |-> provider.raises]
        ELSE [ok |-> provider.http_ok, status |-> provider.status,
              predictions |-> <<>>, raises |-> provider.raises]

\* the body of the cached function
_validate_zip_with_places(zip_code, api_key, places) ==
    LET normalized_zip == _sanitize_zip(zip_code)
        status == IF places.ok THEN places.status ELSE None
    IN  IF normalized_zip = <<>> THEN <<FALSE, "invalid_format">>
        ELSE IF api_key = "" THEN <<FALSE, "missing_api_key">>
        ELSE IF places.raises # "" THEN <<FALSE, places.raises>>
        ELSE IF status \notin {"OK", "ZERO_RESULTS"} THEN <<FALSE, "places_error">>
        ELSE IF places.ok /\ HasMatch(places.predictions, normalized_zip)
             THEN <<TRUE, "ok">>
             ELSE <<FALSE, "not_found">>

\* @lru_cache(maxsize=1024): the cache is a sequence of [zip_code, api_key,
\* result], the least recently used entry first.  A returned result is kept,
\* an exception is not; a hit makes its entry the most recent; a result that
\* arrives at a full cache takes the place of the least recently used one.
\* The cache holds ZipCacheMaxsize entries.
ZipCacheHits(cache, zip_code, api_key) ==
    {i \in 1..Len(cache) : cache[i].zip_code = zip_code /\ cache[i].api_key = api_key}

\* the cache without its i-th entry
ZipCacheWithout(cache, i) == SubSeq(cache, 1, i - 1) \o SubSeq(cache, i + 1, Len(cache))

\* [result, cache, requests]: requests counts the calls of requests.get
ZipCacheCall(cache, zip_code, api_key, places) ==
    LET hits == ZipCacheHits(cache, zip_code, api_key)
        hit == CHOOSE i \in hits : TRUE
        r == _validate_zip_with_places(zip_code, api_key, places)
        requests == IF ReachesProvider(zip_code, api_key) THEN 1 ELSE 0
        room == IF Len(cache) >= ZipCacheMaxsize THEN Tail(cache) ELSE cache
    IN  IF hits # {}
        THEN [result |-> cache[hit].result, requests |-> 0,
              cache |-> ZipCacheWithout(cache, hit) \o <<cache[hit]>>]
        ELSE IF Raised(r)
        THEN [result |-> r, cache |-> cache, requests |-> requests]
        ELSE [result |-> r, requests |-> requests,
              cache |-> room \o <<[zip_code |-> zip_code, api_key |-> api_key,
                                   result |-> r]>>]

\* variant: without a key nothing is accepted
validate_us_zip_needs_key(zip_code, api_key, configured_key, provider, cache) ==
    LET resolved_key == IF api_key # None THEN api_key
                        ELSE IF configured_key # None THEN configured_key ELSE ""
    IN  ZipCacheCall(cache, zip_code, resolved_key, PlacesAnswer(provider, zip_code))

\* api_key None is resolved by _resolve_maps_api_key from the configuration
validate_us_zip(zip_code, api_key, configured_key, provider, cache) ==
    LET resolved_key == IF api_key # None THEN api_key
                        ELSE IF configured_key # None THEN configured_key ELSE ""
        c == ZipCacheCall(cache, zip_code, resolved_key,
                          PlacesAnswer(provider, zip_code))
    IN  IF c.result[2] = "missing_api_key"
        THEN [c EXCEPT !.result = <<_sanitize_zip(zip_code) # <<>>, "format_only">>]
        ELSE c

----------------------------------------------------------------------------
(* app/services/rate_sets.py *)

\* str.isspace on the characters in use
Whitespace == {" ", "\t", "\n"}

\* str.lower on one character, for the letters in use
LowerChar(c) == IF c = "A" THEN "a" ELSE IF c = "Z" THEN "z" ELSE c

LowerChars(text) == [i \in 1..Len(text) |-> LowerChar(text[i])]

\* str.strip: drop the leading and the trailing whitespace
RECURSIVE LStrip(_)
LStrip(text) ==
    IF text # <<>> /\ Head(text) \in Whitespace THEN LStrip(Tail(text)) ELSE text

RECURSIVE RStrip(_)
RStrip(text) ==
    IF text # <<>> /\ text[Len(text)] \in Whitespace
    THEN RStrip(SubSeq(text, 1, Len(text) - 1))
    ELSE text

StripChars(text) == RStrip(LStrip(text))

\* variant: the fallback for a blank candidate is left out
normalize_rate_set_no_fallback(raw_value) ==
    LowerChars(StripChars(IF raw_value = NoText \/ raw_value = <<>>
                          THEN DEFAULT_RATE_SET ELSE raw_value))

normalize_rate_set(raw_value) ==
    LET candidate == LowerChars(StripChars(IF raw_value = NoText \/ raw_value = <<>>
                                           THEN DEFAULT_RATE_SET ELSE raw_value))
    IN  IF candidate = <<>> THEN DEFAULT_RATE_SET ELSE candidate

----------------------------------------------------------------------------
(* app/services/hotshot_rates.py.  The HotshotRate table is a sequence of  *)
(* rows [id, rate_set, miles, zone, per_lb] in storage order; of the rows  *)
(* that tie in an ORDER BY the one stored first comes first.               *)

RATE_SET_DEFAULT == DEFAULT_RATE_SET

HotshotRate(id, rate_set, miles, zone, per_lb) ==
    [id |-> id, rate_set |-> rate_set, miles |-> miles, zone |-> zone,
     per_lb |-> per_lb]

\* variant: a row covers only the distances below its threshold
CoveringStrictly(table, rate_set, miles) ==
    {i \in 1..Len(table) : table[i].rate_set = rate_set /\ table[i].miles > miles}

\* .filter(HotshotRate.rate_set == rate_set, HotshotRate.miles >= miles)
Covering(table, rate_set, miles) ==
    {i \in 1..Len(table) : table[i].rate_set = rate_set /\ table[i].miles >= miles}

\* .filter(HotshotRate.zone == zone, HotshotRate.rate_set == rate_set)
InZone(table, rate_set, zone) ==
    {i \in 1..Len(table) : table[i].rate_set = rate_set /\ table[i].zone = zone}

\* .order_by(HotshotRate.miles).first(): the index of the row, 0 for None
FirstByMiles(table, found) ==
    IF found = {} THEN 0
    ELSE CHOOSE i \in found :
             \A j \in found :
                 \/ table[i].miles < table[j].miles
                 \/ table[i].miles = table[j].miles /\ i <= j

\* variant: the default rows are never consulted for another rate set
RetriesDefaultNever(record, rate_set) == FALSE

\* if record is None and rate_set != RATE_SET_DEFAULT
RetriesDefault(record, rate_set) == record = 0 /\ rate_set # RATE_SET_DEFAULT

\* the row a zone lookup settles on: its index, 0 for None
ZoneRecord(table, miles, rate_set) ==
    LET record == FirstByMiles(table, Covering(table, rate_set, miles))
    IN  IF RetriesDefault(record, rate_set)
        THEN FirstByMiles(table, Covering(table, RATE_SET_DEFAULT, miles))
        ELSE record

get_hotshot_zone_by_miles(table, miles, rate_set) ==
    LET record == ZoneRecord(table, miles, rate_set)
    IN  IF record # 0 THEN table[record].zone ELSE "X"

\* the row a rate lookup settles on: its index, 0 for None
RateRecord(table, zone, rate_set) ==
    LET record == FirstByMiles(table, InZone(table, rate_set, zone))
    IN  IF RetriesDefault(record, rate_set)
        THEN FirstByMiles(table, InZone(table, RATE_SET_DEFAULT, zone))
        ELSE record

\* [raised, row, error]: the row, or the ValueError raised
get_current_hotshot_rate(table, zone, rate_set) ==
    LET record == RateRecord(table, zone, rate_set)
    IN  IF record = 0
        THEN [raised |-> TRUE, row |-> HotshotRate(0, <<>>, 0, "", 0),
              error |-> "Hotshot rate not found for zone " \o zone]
        ELSE [raised |-> FALSE, row |-> table[record], error |-> ""]

----------------------------------------------------------------------------
(* json.dumps / json.loads on the metadata dict.  The stored text is       *)
(* [valid, members]: members is the top-level object, each value tagged    *)
(* with its JSON type; None becomes null.                                  *)

\* a float or None
JsonNumberOrNull(n) == IF n = NoNumber THEN <<"null">> ELSE <<"number", n>>

JsonDumps(metadata) ==
    [valid |-> TRUE,
     members |-> << <<"accessorials", <<"object", metadata.accessorials>> >>,
                    <<"accessorial_total", <<"number", metadata.accessorial_total>> >>,
                    <<"miles", JsonNumberOrNull(metadata.miles)>>,
                    <<"pieces", <<"number", metadata.pieces>> >>,
                    <<"details", <<"object", metadata.details>> >> >>]

JsonValue(v) == IF v[1] = "null" THEN NoNumber ELSE v[2]

JsonLoads(text) ==
    [k \in DictKeys(text.members) |-> JsonValue(DictValue(text.members, k))]

----------------------------------------------------------------------------
(* Reference data *)

AccessorialRow(id, name, amount, is_percentage) ==
    [id |-> id, name |-> name, amount |-> amount, is_percentage |-> is_percentage]

\* flat amounts are dollars, the guarantee amount is a percentage
StandardCatalog ==
    << AccessorialRow(1, "Liftgate", 110, FALSE),
       AccessorialRow(2, "Guarantee", 25, TRUE) >>

RepricedCatalog ==
    << AccessorialRow(1, "Liftgate", 110, FALSE),
       AccessorialRow(2, "Guarantee", 30, TRUE) >>

RenamedCatalog ==
    << AccessorialRow(1, "Liftgate", 110, FALSE),
       AccessorialRow(2, "Guarantee Service", 25, TRUE) >>

Catalogs == {StandardCatalog, RepricedCatalog, RenamedCatalog}

RequiredAirTables == <<"ZipZone", "CostZone", "AirCostZone">>

Agr == <<"a", "g", "r">>

Zeta == <<"z", "e", "t", "a">>

\* the rows a HotshotRate table is made of
HotshotRatePool ==
    << HotshotRate(1, RATE_SET_DEFAULT, 100, "A", 500),
       HotshotRate(2, RATE_SET_DEFAULT, 200, "B", 700),
       HotshotRate(3, RATE_SET_DEFAULT, 200, "A", 600),
       HotshotRate(4, RATE_SET_DEFAULT, 9999, "X", 5100),
       HotshotRate(5, Agr, 150, "A", 400),
       HotshotRate(6, Agr, 300, "C", 900) >>

StandardHotshotRates == HotshotRatePool

\* every table made of some of the rows, in id order
RECURSIVE HotshotTablesFrom(_)
HotshotTablesFrom(k) ==
    IF k > Len(HotshotRatePool) THEN {<<>>}
    ELSE LET rest == HotshotTablesFrom(k + 1)
         IN  rest \cup {<<HotshotRatePool[k]>> \o t : t \in rest}

HotshotTables == HotshotTablesFrom(1)

----------------------------------------------------------------------------
(* Rate lookup: app/quote/logic_air.py and app/quote/logic_hotshot.py.     *)
(* What the tables yield is an input, rate: [failed, linehaul, beyond,     *)
(* zone, miles, has_total]; has_total tells whether the dict of a failed   *)
(* air lookup still has a quote_total.  The returned dict carries the      *)
(* accessorial total inside quote_total.                                   *)

RateOutcome(failed, linehaul, has_total) ==
    [failed |-> failed, linehaul |-> linehaul, beyond |-> 0, zone |-> "B",
     miles |-> 700, has_total |-> has_total]

AirRateOutcomes ==
    {RateOutcome(FALSE, Dollars(1000), TRUE), RateOutcome(FALSE, Dollars(5000), TRUE),
     RateOutcome(TRUE, 0, TRUE), RateOutcome(TRUE, 0, FALSE)}

HotshotRateOutcomes ==
    {RateOutcome(FALSE, Dollars(1000), TRUE), RateOutcome(FALSE, Dollars(5000), TRUE),
     RateOutcome(TRUE, 0, FALSE)}

AIR_RATE_ERROR == "No air rate found for the requested lane."

HOTSHOT_RATE_ERROR == "No hotshot rate found for the requested zone."

calculate_air_quote(origin, destination, weight, accessorial_total, rate_set, rate) ==
    IF ~rate.failed
    THEN << <<"zone", rate.zone>>,
            <<"quote_total", rate.linehaul + rate.beyond + accessorial_total>>,
            <<"beyond_total", rate.beyond>> >>
    ELSE IF rate.has_total
         THEN << <<"quote_total", 0>>, <<"error", AIR_RATE_ERROR>> >>
         ELSE << <<"error", AIR_RATE_ERROR>> >>

\* [raised |-> a ValueError was raised, msg |-> its text, result |-> the dict]
calculate_hotshot_quote(origin, destination, weight, accessorial_total, rate_set, rate) ==
    IF ~rate.failed
    THEN [raised |-> FALSE, msg |-> "",
          result |-> << <<"zone", rate.zone>>, <<"miles", rate.miles>>,
                        <<"quote_total", rate.linehaul + accessorial_total>> >>]
    ELSE [raised |-> TRUE, msg |-> HOTSHOT_RATE_ERROR, result |-> <<>>]

\* result.get(key, default)
ResultGet(result, key, default) ==
    IF key \in DictKeys(result) THEN DictValue(result, key) ELSE default

NotPricingKey(p) == p[1] \notin {"quote_total", "miles", "zone"}

\* {k: v for k, v in result.items() if k not in {"quote_total", "miles", "zone"}}
Details(result) == SelectSeq(result, NotPricingKey)

BuildMetadata(accessorial_costs, accessorial_total, result, pieces) ==
    [accessorials |-> accessorial_costs,
     accessorial_total |-> accessorial_total,
     miles |-> ResultGet(result, "miles", NoNumber),
     pieces |-> pieces,
     details |-> Details(result)]

----------------------------------------------------------------------------
(* app/quotes/routes.py: the two lru_cache slots *)

EmptySlot == [cached |-> FALSE, value |-> <<>>]

RECURSIVE AccessorialLookup(_)
\* lookup[name.lower()] = AccessorialInfo(name, amount), rows without a name skipped
AccessorialLookup(records) ==
    IF records = <<>> THEN <<>>
    ELSE LET rest == AccessorialLookup(SubSeq(records, 1, Len(records) - 1))
             record == records[Len(records)]
         IN  IF record.name = "" THEN rest
             ELSE DictSet(rest, Lower(record.name),
                          [name |-> record.name, amount |-> record.amount])

\* variant: the table is read on every call
_accessorial_cache_recomputing(slot, table) ==
    [cached |-> TRUE, value |-> AccessorialLookup(table)]

_accessorial_cache(slot, table) ==
    IF slot.cached THEN slot ELSE [cached |-> TRUE, value |-> AccessorialLookup(table)]

MissingAirTables(present) ==
    LET Missing(label) == label \notin present
    IN  SelectSeq(RequiredAirTables, Missing)

_air_rate_table_cache(slot, present) ==
    IF slot.cached THEN slot ELSE [cached |-> TRUE, value |-> MissingAirTables(present)]

----------------------------------------------------------------------------
(* Raw request values: a blank or missing field, a non-numeric text, or a  *)
(* numeric text.  Weights arrive in lb, dimensions in inches.              *)

Blank == [kind |-> "blank", val |-> 0]

Text == [kind |-> "text", val |-> 0]

Num(n) == [kind |-> "num", val |-> n]

Parsed(val, errs) == [val |-> val, errs |-> errs]

\* "\n".join(lines): the stored text, kept as its sequence of lines
JoinLines(lines) == IF lines = <<"">> THEN <<>> ELSE lines

\* a single string as stored text
AsText(line) == IF line = "" THEN <<>> ELSE <<line>>

----------------------------------------------------------------------------
(* Weight rule shared by both creation paths *)

BillableWeight(actual_weight, dim_weight) == Max(actual_weight, dim_weight)

WeightMethod(billable_weight, dim_weight) ==
    IF billable_weight = dim_weight /\ dim_weight > 0 THEN "Dimensional" ELSE "Actual"

\* (length * width * height / 166) * pieces, in units of 1/166 lb
DimFromSize(length, width, height, pieces) == length * width * height * pieces

\* variant: the guarantee taken on the whole price
GuaranteeBaseOnPrice(price, accessorial_total) == price

\* price - accessorial_total: linehaul plus beyond
GuaranteeBase(price, accessorial_total) == price - accessorial_total

PercentOf(amount, pct) == (amount * pct) \div 100

----------------------------------------------------------------------------
(* app/quotes/routes.py: new_quote, POST *)

ZipErrors(field, valid, reason) ==
    IF valid THEN <<>>
    ELSE IF reason = "invalid_format"
         THEN <<field \o " ZIP must include at least 5 digits.">>
         ELSE <<field \o " ZIP could not be validated with Google Places.">>

ParseWeightActual(raw) ==
    IF raw.kind \in {"blank", "text"}
    THEN Parsed(0, <<"Actual weight is required and must be a number.">>)
    ELSE IF raw.val < 0
         THEN Parsed(Lb(raw.val), <<"Actual weight must be non-negative.">>)
         ELSE Parsed(Lb(raw.val), <<>>)

ParsePieces(raw) ==
    IF raw.kind = "blank" THEN Parsed(1, <<>>)
    ELSE IF raw.kind = "text" THEN Parsed(1, <<"Pieces must be a whole number.">>)
    ELSE IF raw.val < 1 THEN Parsed(1, <<"Pieces must be at least 1.">>)
    ELSE Parsed(raw.val, <<>>)

_parse_dim(name, raw) ==
    IF raw.kind = "blank" THEN Parsed(0, <<>>)
    ELSE IF raw.kind = "text" THEN Parsed(0, <<name \o " must be a number.">>)
    ELSE IF raw.val < 0 THEN Parsed(0, <<name \o " must be non-negative.">>)
    ELSE Parsed(raw.val, <<>>)

ParseWeightDim(raw, length, width, height, pieces) ==
    IF raw.kind = "num" THEN Parsed(Lb(raw.val), <<>>)
    ELSE IF raw.kind = "text" THEN Parsed(0, <<"Dimensional weight must be a number.">>)
    ELSE IF length # 0 /\ width # 0 /\ height # 0
         THEN Parsed(DimFromSize(length, width, height, pieces), <<>>)
         ELSE Parsed(0, <<>>)

PieceLimitErrors(quote_type, weight_actual, pieces, weight_dim) ==
    LET piece_err == check_air_piece_limit(quote_type, weight_actual, pieces, weight_dim)
    IN  IF piece_err # None THEN <<piece_err>> ELSE <<>>

NotGuarantee(s) == ~ContainsGuarantee(s)

GuaranteeSelected(selected) == \E i \in 1..Len(selected) : ContainsGuarantee(selected[i])

RECURSIVE FixedAccessorialCosts(_, _)
\* accessorial_costs[record.name] = record.amount for each known flat name
FixedAccessorialCosts(fixed_accessorials, accessorial_map) ==
    IF fixed_accessorials = <<>> THEN <<>>
    ELSE LET rest == FixedAccessorialCosts(
                         SubSeq(fixed_accessorials, 1, Len(fixed_accessorials) - 1),
                         accessorial_map)
             key == Lower(Strip(fixed_accessorials[Len(fixed_accessorials)]))
         IN  IF key \in DictKeys(accessorial_map)
             THEN LET record == DictValue(accessorial_map, key)
                  IN  DictSet(rest, record.name, Dollars(record.amount))
             ELSE rest

\* variant: a single error does not stop the request
ShouldAbortOnSeveral(errors) == Len(errors) > 1

ShouldAbort(errors) == errors # <<>>

MissingTablesError(missing_tables) ==
    IF Len(missing_tables) = 1
    THEN "Air rate table(s) missing or empty: " \o missing_tables[1]
    ELSE IF Len(missing_tables) = 2
    THEN "Air rate table(s) missing or empty: " \o missing_tables[1] \o ", "
             \o missing_tables[2]
    ELSE "Air rate table(s) missing or empty: " \o missing_tables[1] \o ", "
             \o missing_tables[2] \o ", " \o missing_tables[3]

QuoteRow(id, quote_type, origin, destination, billable_weight, weight_method, actual_weight, dim_weight, pieces, length, width, height, rate_set, zone, total, metadata, warnings, request_ip) ==
    [id |-> id, quote_type |-> quote_type, origin |-> origin,
     destination |-> destination, weight |-> billable_weight,
     weight_method |-> weight_method, actual_weight |-> actual_weight,
     dim_weight |-> dim_weight, pieces |-> pieces, length |-> length,
     width |-> width, height |-> height, rate_set |-> rate_set, zone |-> zone,
     total |-> total, quote_metadata |-> JsonDumps(metadata),
     warnings |-> warnings, request_ip |-> request_ip]

\* What the last request or call did: the response (format, status, errors
\* sent, exceeds_threshold flag, id of the row it saved or 0) and, for the
\* record, the validation errors it accumulated, the missing air tables it
\* logged and whether it called a rate calculation.
Response(handler, format, status, errors, rate_lookup, saved, exceeds_threshold) ==
    [handler |-> handler, format |-> format, status |-> status, errors |-> errors,
     rate_lookup |-> rate_lookup, saved |-> saved,
     exceeds_threshold |-> exceeds_threshold,
     validation_errors |-> <<>>, missing_tables |-> <<>>]

Traced(response, validation_errors, missing_tables) ==
    [response EXCEPT !.validation_errors = validation_errors,
                     !.missing_tables = missing_tables]

NoRow == <<>>

\* the validation stage: both ZIPs are validated first (an exception of the
\* transport ends the request there), then every field is checked and the
\* errors accumulate in order
ValidateFields(form, oc, dc) ==
    LET o == oc.result
        d == dc.result
        wa == ParseWeightActual(form.weight_actual)
        pc == ParsePieces(form.pieces)
        ln == _parse_dim("Length", form.length)
        wd == _parse_dim("Width", form.width)
        ht == _parse_dim("Height", form.height)
        dm == ParseWeightDim(form.weight_dim, ln.val, wd.val, ht.val, pc.val)
    IN  [weight_actual |-> wa.val, pieces |-> pc.val, length |-> ln.val,
         width |-> wd.val, height |-> ht.val, weight_dim |-> dm.val,
         raised |-> IF Raised(o) THEN o[2] ELSE IF Raised(d) THEN d[2] ELSE "",
         zip_cache |-> IF Raised(o) THEN oc.cache ELSE dc.cache,
         errors |-> ZipErrors("Origin", o[1], o[2])
                    \o ZipErrors("Destination", d[1], d[2])
                    \o wa.errs \o pc.errs \o ln.errs \o wd.errs \o ht.errs \o dm.errs
                    \o PieceLimitErrors(form.quote_type, wa.val, pc.val, dm.val)]

\* oc and dc are the answers of validate_us_zip for the origin and, with the
\* cache the first call left, for the destination
Validate(form, api_key, provider, zip_cache) ==
    CHOOSE v \in UNION {
        {ValidateFields(form, oc, dc) :
            dc \in {validate_us_zip(form.destination, api_key, api_key, provider, oc.cache)}} :
        oc \in {validate_us_zip(form.origin, api_key, api_key, provider, zip_cache)}} : TRUE

\* the rate stage: [result, warnings, rate_lookup, rejected]
RouteRate(form, v, accessorial_total, billable_weight, rate_set, missing_tables, rate) ==
    IF Lower(form.quote_type) = "air"
    THEN IF missing_tables # <<>>
         THEN [result |-> << <<"quote_total", 0>>, <<"beyond_total", 0>>,
                             <<"error", MissingTablesError(missing_tables)>> >>,
               warnings |-> <<MissingTablesError(missing_tables)>>,
               rate_lookup |-> FALSE, rejected |-> FALSE]
         ELSE LET result == calculate_air_quote(form.origin, form.destination,
                                billable_weight, accessorial_total, rate_set, rate)
              IN  [result |-> result, warnings |-> <<>>, rate_lookup |-> TRUE,
                   rejected |-> "error" \in DictKeys(result)]
    ELSE LET h == calculate_hotshot_quote(form.origin, form.destination,
                      billable_weight, accessorial_total, rate_set, rate)
         IN  IF h.raised
             THEN [result |-> << <<"quote_total", 0>> >>, warnings |-> <<h.msg>>,
                   rate_lookup |-> TRUE, rejected |-> FALSE]
             ELSE [result |-> h.result, warnings |-> <<>>, rate_lookup |-> TRUE,
                   rejected |-> FALSE]

\* variant: the warning is shown but not kept
WithoutThresholdWarning(warnings, threshold_warning) == warnings

\* if exceeds_threshold: warnings.append(threshold_warning)
WithThresholdWarning(warnings, threshold_warning) ==
    IF threshold_warning # "" THEN Append(warnings, threshold_warning) ELSE warnings

\* the pricing stage after a rate result: [row, exceeds_threshold]
RoutePrice(form, v, accessorial_costs, accessorial_total, billable_weight, rate_set, r, id) ==
    LET price == ResultGet(r.result, "quote_total", 0)
        threshold_warning == check_thresholds(form.quote_type, billable_weight, price)
        warnings == WithThresholdWarning(r.warnings, threshold_warning)
        guarantee == Lower(form.quote_type) = "air" /\ GuaranteeSelected(form.accessorials)
        guarantee_cost == PercentOf(GuaranteeBase(price, accessorial_total),
                                    ROUTE_GUARANTEE_PCT)
        costs == IF guarantee
                 THEN DictSet(accessorial_costs, "Guarantee", guarantee_cost)
                 ELSE accessorial_costs
        total == IF guarantee THEN accessorial_total + guarantee_cost
                 ELSE accessorial_total
        final == IF guarantee THEN price + guarantee_cost ELSE price
        metadata == BuildMetadata(costs, total, r.result, v.pieces)
    IN  [row |-> QuoteRow(id, Title(form.quote_type), form.origin, form.destination,
                          billable_weight, WeightMethod(billable_weight, v.weight_dim),
                          v.weight_actual, v.weight_dim, v.pieces, v.length, v.width,
                          v.height, rate_set, None, final, metadata,
                          JoinLines(warnings), "203.0.113.7"),
         exceeds_threshold |-> threshold_warning # ""]

\* what the POST does once the fields are validated
Respond(form, v, accessorial_map, missing_tables, rate, id) ==
    LET format == IF form.is_json THEN "json" ELSE "html"
        accessorial_costs ==
            FixedAccessorialCosts(SelectSeq(form.accessorials, NotGuarantee),
                                  accessorial_map)
        accessorial_total == SumValues(accessorial_costs)
        billable_weight == BillableWeight(v.weight_actual, v.weight_dim)
        rate_set == normalize_rate_set(form.user_rate_set)
        r == RouteRate(form, v, accessorial_total, billable_weight, rate_set,
                       missing_tables, rate)
        p == RoutePrice(form, v, accessorial_costs, accessorial_total,
                        billable_weight, rate_set, r, id)
        logged == IF Lower(form.quote_type) = "air" THEN missing_tables ELSE <<>>
    IN  IF v.raised # ""
        THEN [resp |-> Response("new_quote", "html", 500, <<v.raised>>, FALSE, 0, FALSE),
              row |-> NoRow, air_checked |-> FALSE, zip_cache |-> v.zip_cache]
        ELSE IF ShouldAbort(v.errors)
        THEN [resp |-> Traced(Response("new_quote", format, 400, v.errors, FALSE,
                                       0, FALSE), v.errors, <<>>),
              row |-> NoRow, air_checked |-> FALSE, zip_cache |-> v.zip_cache]
        ELSE IF r.rejected
        THEN [resp |-> Traced(Response("new_quote", "html", 400,
                                       <<DictValue(r.result, "error")>>, TRUE, 0,
                                       FALSE), v.errors, logged),
              row |-> NoRow, air_checked |-> TRUE, zip_cache |-> v.zip_cache]
        ELSE [resp |-> Traced(Response("new_quote", format, 200, <<>>,
                                       r.rate_lookup, id, p.exceeds_threshold),
                              v.errors, logged),
              row |-> <<p.row>>, air_checked |-> Lower(form.quote_type) = "air",
              zip_cache |-> v.zip_cache]

\* the whole POST: [resp, row, air_checked, zip_cache]; row is NoRow when
\* nothing is saved
new_quote(form, api_key, provider, zip_cache, accessorial_map, missing_tables, rate, id) ==
    CHOOSE out \in {Respond(form, v, accessorial_map, missing_tables, rate, id) :
                       v \in {Validate(form, api_key, provider, zip_cache)}} : TRUE

----------------------------------------------------------------------------
(* app/services/quote.py: create_quote.  Arguments arrive as numbers:      *)
(* weights in lb, dimensions in inches, accessorial_total in cents.        *)

DimWeightVal(dim_weight, length, width, height, pieces) ==
    IF dim_weight # 0 /\ dim_weight > 0 THEN dim_weight
    ELSE IF length > 0 /\ width > 0 /\ height > 0
         THEN DimFromSize(length, width, height, pieces)
         ELSE 0

\* acc_map = {a.name.lower(): a for a in db.query(Accessorial).all()}
RECURSIVE AccMap(_)
AccMap(records) ==
    IF records = <<>> THEN <<>>
    ELSE DictSet(AccMap(SubSeq(records, 1, Len(records) - 1)),
                 Lower(records[Len(records)].name), records[Len(records)])

IsGuaranteeRecord(record) == record.is_percentage /\ Lower(record.name) = "guarantee"

\* one iteration of the loop over the selected names;
\* st = [costs, total, guarantee_pct], guarantee_pct 0 standing for None
ApplyAccessorial(st, raw_acc, acc_map) ==
    LET key == Lower(Strip(raw_acc))
    IN  IF raw_acc = "" \/ key \notin DictKeys(acc_map) THEN st
        ELSE LET record == DictValue(acc_map, key)
             IN  IF IsGuaranteeRecord(record)
                 THEN [st EXCEPT !.guarantee_pct = record.amount]
                 ELSE [st EXCEPT !.costs = DictSet(st.costs, record.name,
                                                   Dollars(record.amount)),
                                 !.total = st.total + Dollars(record.amount)]

RECURSIVE ServiceAccessorials(_, _, _)
ServiceAccessorials(accessorials, acc_map, accessorial_total) ==
    IF accessorials = <<>>
    THEN [costs |-> <<>>, total |-> accessorial_total, guarantee_pct |-> 0]
    ELSE ApplyAccessorial(
             ServiceAccessorials(SubSeq(accessorials, 1, Len(accessorials) - 1),
                                 acc_map, accessorial_total),
             accessorials[Len(accessorials)], acc_map)

\* variant: like the form route, a failed hotshot lookup prices the quote at 0
ServiceRateTolerant(args, billable_weight, accessorial_total, rate_set, rate) ==
    IF args.quote_type = "Air" /\ "quote_total" \in DictKeys(calculate_air_quote(args.origin, args.destination, billable_weight, accessorial_total, rate_set, rate))
    THEN [raised |-> FALSE, error |-> "",
          result |-> calculate_air_quote(args.origin, args.destination, billable_weight,
                                         accessorial_total, rate_set, rate)]
    ELSE IF args.quote_type = "Air"
    THEN [raised |-> TRUE, error |-> "KeyError: 'quote_total'", result |-> <<>>]
    ELSE IF calculate_hotshot_quote(args.origin, args.destination, billable_weight, accessorial_total, rate_set, rate).raised
    THEN [raised |-> FALSE, error |-> "", result |-> << <<"quote_total", 0>> >>]
    ELSE [raised |-> FALSE, error |-> "",
          result |-> calculate_hotshot_quote(args.origin, args.destination, billable_weight,
                                             accessorial_total, rate_set, rate).result]

\* the rate stage: [raised, error, result]
ServiceRate(args, billable_weight, accessorial_total, rate_set, rate) ==
    IF args.quote_type = "Air"
    THEN LET result == calculate_air_quote(args.origin, args.destination,
                           billable_weight, accessorial_total, rate_set, rate)
         IN  IF "quote_total" \in DictKeys(result)
             THEN [raised |-> FALSE, error |-> "", result |-> result]
             ELSE [raised |-> TRUE, error |-> "KeyError: 'quote_total'",
                   result |-> result]
    ELSE LET h == calculate_hotshot_quote(args.origin, args.destination,
                      billable_weight, accessorial_total, rate_set, rate)
         IN  IF h.raised
             THEN [raised |-> TRUE,
                   error |-> "Hotshot quote calculation failed: " \o h.msg,
                   result |-> <<>>]
             ELSE [raised |-> FALSE, error |-> "", result |-> h.result]

\* the whole call: [resp, row]; row is NoRow when the call raised
create_quote(args, table, rate, id) ==
    LET actual_weight == Lb(args.weight)
        dim_weight_val == DimWeightVal(Lb(args.dim_weight), args.length, args.width,
                                       args.height, args.pieces)
        billable_weight == BillableWeight(actual_weight, dim_weight_val)
        weight_method == WeightMethod(billable_weight, dim_weight_val)
        normalized_rate_set == normalize_rate_set(args.rate_set)
        a == ServiceAccessorials(args.accessorials, AccMap(table), args.accessorial_total)
        r == ServiceRate(args, billable_weight, a.total, normalized_rate_set, rate)
        quote_total == DictValue(r.result, "quote_total")
        guarantee == args.quote_type = "Air" /\ a.guarantee_pct # 0
        guarantee_cost == PercentOf(GuaranteeBase(quote_total, a.total), a.guarantee_pct)
        costs == IF guarantee THEN DictSet(a.costs, "Guarantee", guarantee_cost)
                 ELSE a.costs
        total == IF guarantee THEN a.total + guarantee_cost ELSE a.total
        final == IF guarantee THEN quote_total + guarantee_cost ELSE quote_total
        warning == check_thresholds(args.quote_type, billable_weight, final)
        metadata == BuildMetadata(costs, total, r.result, args.pieces)
    IN  IF r.raised
        THEN [resp |-> Response("create_quote", "python", 500, <<r.error>>, TRUE, 0, FALSE),
              row |-> NoRow]
        ELSE [resp |-> Response("create_quote", "python", 200, <<>>, TRUE, id, warning # ""),
              row |-> << QuoteRow(id, args.quote_type, args.origin, args.destination,
                                  billable_weight, weight_method, actual_weight,
                                  Lb(args.dim_weight), args.pieces, args.length,
                                  args.width, args.height, normalized_rate_set,
                                  ResultGet(r.result, "zone", ""), final, metadata,
                                  AsText(warning), None) >>]

----------------------------------------------------------------------------
(* Inputs *)

Zip30301 == <<"3", "0", "3", "0", "1">>

Zip60601 == <<"6", "0", "6", "0", "1">>

ZipShort == <<"6", "0", "6", "0">>

\* weight_actual, pieces, length, width, height, weight_dim as submitted
FormShipment(weight_actual, pieces, length, width, height, weight_dim) ==
    [weight_actual |-> weight_actual, pieces |-> pieces, length |-> length,
     width |-> width, height |-> height, weight_dim |-> weight_dim]

FormShipments ==
    {FormShipment(Num(250), Blank, Blank, Blank, Blank, Blank),
     FormShipment(Num(250), Num(5), Num(40), Num(30), Num(40), Blank),
     FormShipment(Num(3001), Num(11), Blank, Blank, Blank, Blank),
     FormShipment(Num(250), Num(3), Blank, Blank, Blank, Num(700)),
     FormShipment(Num(250), Blank, Num(40), Num(30), Num(40), Num(0)),
     FormShipment(Num(250), Blank, Blank, Blank, Blank, Num(-3))}

Selections ==
    {<<>>, <<"Liftgate ", "liftgate">>, <<"Liftgate", "Guarantee">>,
     <<"Guarantee Service", "Bogus">>}

Form(quote_type, origin, destination, shipment, accessorials, is_json) ==
    [quote_type |-> quote_type, origin |-> origin, destination |-> destination,
     weight_actual |-> shipment.weight_actual, pieces |-> shipment.pieces,
     length |-> shipment.length, width |-> shipment.width,
     height |-> shipment.height, weight_dim |-> shipment.weight_dim,
     accessorials |-> accessorials, is_json |-> is_json, user_rate_set |-> NoText]

FormQuoteTypes == {"Air", "air", "Hotshot"}

BaselineShipment == FormShipment(Num(250), Blank, Blank, Blank, Blank, Blank)

WellFormedForms ==
    {Form(t, Zip30301, Zip60601, sh, sel, FALSE) :
        t \in FormQuoteTypes, sh \in FormShipments, sel \in Selections}
    \cup {Form(t, Zip30301, Zip60601, BaselineShipment, sel, TRUE) :
             t \in FormQuoteTypes, sel \in Selections}

Baseline == Form("Air", Zip30301, Zip60601, BaselineShipment,
                 <<"Liftgate", "Guarantee">>, FALSE)

\* a quote_type the form does not offer
OtherTypeForms ==
    {Form("Ground", Zip30301, Zip60601, BaselineShipment, <<>>, j) : j \in BOOLEAN}

FaultyHtmlForms ==
    {[Baseline EXCEPT !.origin = ZipShort],
     [Baseline EXCEPT !.destination = ZipShort],
     [Baseline EXCEPT !.origin = ZipShort, !.destination = <<>>],
     [Baseline EXCEPT !.weight_actual = Blank],
     [Baseline EXCEPT !.weight_actual = Text],
     [Baseline EXCEPT !.weight_actual = Num(-5)],
     [Baseline EXCEPT !.pieces = Num(0)],
     [Baseline EXCEPT !.pieces = Text],
     [Baseline EXCEPT !.length = Num(-1)],
     [Baseline EXCEPT !.width = Text],
     [Baseline EXCEPT !.weight_dim = Text],
     [Baseline EXCEPT !.weight_actual = Num(901), !.pieces = Num(3)],
     [Baseline EXCEPT !.quote_type = "Hotshot", !.weight_actual = Num(-5)],
     [Baseline EXCEPT !.origin = ZipShort, !.weight_actual = Num(-5),
                      !.pieces = Num(0), !.height = Text]}

FaultyJsonForms ==
    {[Baseline EXCEPT !.destination = ZipShort, !.is_json = TRUE],
     [Baseline EXCEPT !.weight_actual = Text, !.is_json = TRUE],
     [Baseline EXCEPT !.weight_actual = Num(901), !.pieces = Num(3),
                      !.is_json = TRUE]}

FaultyForms == FaultyHtmlForms \cup FaultyJsonForms

Providers ==
    {Provider(TRUE, "OK", {Zip30301, Zip60601}), Provider(TRUE, "OK", {Zip30301}),
     Provider(TRUE, "OVER_QUERY_LIMIT", {}), Provider(FALSE, "OK", {})}
    \cup {Unreachable(e) : e \in TransportErrors}

\* the provider of a deployment that has no key and so never calls it
Unused == Provider(FALSE, "OK", {})

RateOutcomesFor(quote_type) ==
    IF Lower(quote_type) = "air" THEN AirRateOutcomes ELSE HotshotRateOutcomes

ServiceShipment(weight, pieces, length, width, height, dim_weight) ==
    [weight |-> weight, pieces |-> pieces, length |-> length, width |-> width,
     height |-> height, dim_weight |-> dim_weight]

ServiceShipments ==
    {ServiceShipment(250, 1, 0, 0, 0, 0),
     ServiceShipment(250, 5, 40, 30, 40, 0),
     ServiceShipment(3001, 11, 0, 0, 0, 0),
     ServiceShipment(250, 3, 0, 0, 0, 700),
     ServiceShipment(250, 1, 0, 0, 0, -3),
     ServiceShipment(600, 2, 48, 40, 36, 0)}

StartingTotals == {0, Dollars(50)}

Args(quote_type, shipment, accessorials, accessorial_total) ==
    [quote_type |-> quote_type, origin |-> Zip30301, destination |-> Zip60601,
     weight |-> shipment.weight, accessorial_total |-> accessorial_total,
     pieces |-> shipment.pieces, length |-> shipment.length,
     width |-> shipment.width, height |-> shipment.height,
     dim_weight |-> shipment.dim_weight, accessorials |-> accessorials,
     rate_set |-> NoText]

ServiceArgs ==
    {Args(t, sh, sel, 0) :
        t \in {"Air", "Hotshot"}, sh \in ServiceShipments, sel \in Selections}
    \cup {Args(t, ServiceShipment(250, 1, 0, 0, 0, 0), sel, at) :
             t \in {"Air", "Hotshot"}, sel \in Selections, at \in StartingTotals}

\* A request is served without reading the Quote table, so the requests and
\* calls that follow the first are drawn from smaller sets, and so are those
\* of a deployment that has a key, where only the ZIP validation differs.
FollowUpForms ==
    {[Baseline EXCEPT !.origin = ZipShort],
     [Baseline EXCEPT !.weight_actual = Num(901), !.pieces = Num(3)]}
    \cup {Form(t, Zip30301, Zip60601, BaselineShipment, <<"Liftgate", "Guarantee">>, j) :
             t \in {"Air", "Hotshot"}, j \in BOOLEAN}

FollowUpArgs ==
    {Args(t, ServiceShipment(600, 2, 48, 40, 36, 0), <<"Liftgate", "Guarantee">>, 0) :
        t \in {"Air", "Hotshot"}}

FirstWithoutKey(stored, zip_cache, api_key) ==
    stored = 0 /\ zip_cache = <<>> /\ api_key = None

\* the forms posted to a process that holds this many quotes, has validated
\* these ZIPs and is configured with this key
RequestsAt(stored, zip_cache, api_key) ==
    IF FirstWithoutKey(stored, zip_cache, api_key)
    THEN WellFormedForms \cup FaultyForms \cup OtherTypeForms
    ELSE FollowUpForms

ServiceArgsAt(stored, zip_cache, api_key) ==
    IF FirstWithoutKey(stored, zip_cache, api_key) THEN ServiceArgs ELSE FollowUpArgs

\* a deployment: the Accessorial rows, the populated air-rate tables,
\* GOOGLE_MAPS_API_KEY (None when unset) and the geocoding provider
Environments ==
    {<<c, {"ZipZone", "CostZone", "AirCostZone"}, None, Unused>> : c \in Catalogs}
    \cup {<<StandardCatalog, {"ZipZone", "AirCostZone"}, None, Unused>>}
    \cup {<<StandardCatalog, {"ZipZone", "CostZone", "AirCostZone"}, "maps-key", p>> :
             p \in Providers}

\* the rate outcomes that can matter to a request: one when it stops at
\* validation, before any table is read
RatesConsulted(form, api_key, provider, zip_cache) ==
    LET v == Validate(form, api_key, provider, zip_cache)
    IN  IF v.errors # <<>> \/ v.raised # ""
        THEN {RateOutcome(TRUE, 0, FALSE)}
        ELSE RateOutcomesFor(form.quote_type)

----------------------------------------------------------------------------
(* app/services/mail.py: the rate limits, the delivery loop and the        *)
(* dispatch log of send_email.  Delays are in milliseconds.                *)

retry_delays == <<500, 1000, 2000>>

\* the exceptions the loop catches; smtplib raises subclasses of them too
transient_errors == {"SMTPServerDisconnected", "SMTPResponseException", "SMTPConnectError"}

\* an SMTPException outside transient_errors
OTHER_SMTP_ERROR == "SMTPRecipientsRefused"

\* variant: one delivery attempt more
max_attempts_one_more == Len(retry_delays) + 2

max_attempts == Len(retry_delays) + 1

Min(a, b) == IF a <= b THEN a ELSE b

\* random.uniform(0, base_delay * 0.1) at its ends and its middle, chosen
\* by jitter in 0..2
Jitter(base_delay, jitter) == (base_delay * jitter) \div 20

\* attempt is the zero-based index of the failed attempt
_retry_delay_seconds(attempt, base_delays, jitter) ==
    LET base_delay == base_delays[Min(attempt, Len(base_delays) - 1) + 1]
    IN  base_delay + Jitter(base_delay, jitter)

\* a send_email call: where it is (idle, delivering, sent, raised), the
\* index of the next attempt, the outcome of every SMTP attempt made, the
\* time.sleep calls, the warnings logged, the exception that left the
\* call and whether the dispatch was logged
Mail(pc, attempt, results, sleeps, warnings, raised, dispatched) ==
    [pc |-> pc, attempt |-> attempt, results |-> results, sleeps |-> sleeps,
     warnings |-> warnings, raised |-> raised, dispatched |-> dispatched]

NoMail == Mail("idle", 0, <<>>, <<>>, <<>>, "", FALSE)

\* "Transient SMTP failure (%s). Retrying in %.2fs (attempt %s/%s)."
RetryWarning(exception, delay, attempt, of) ==
    [exception |-> exception, delay |-> delay, attempt |-> attempt, of |-> of]

\* one pass of the loop body: _deliver_message ends with outcome ("ok" or
\* the exception it raised); break, retry after warning and sleep, or raise
DeliveryAttempt(m, outcome, jitter) ==
    LET results == Append(m.results, outcome)
        delay == _retry_delay_seconds(m.attempt, retry_delays, jitter)
    IN  IF outcome = "ok"
        THEN Mail("sent", m.attempt, results, m.sleeps, m.warnings, "", TRUE)
        ELSE IF outcome \notin transient_errors \/ m.attempt >= max_attempts - 1
        THEN Mail("raised", m.attempt, results, m.sleeps, m.warnings, outcome, FALSE)
        ELSE Mail("delivering", m.attempt + 1, results, Append(m.sleeps, delay),
                  Append(m.warnings,
                         RetryWarning(outcome, delay, m.attempt + 1, max_attempts)),
                  "", FALSE)

\* (feature or "general").strip().lower() or "general"
_normalize_feature(feature) ==
    LET value == Lower(Strip(IF feature = "" THEN "general" ELSE feature))
    IN  IF value = "" THEN "general" ELSE value

_normalize_recipient(recipient) == Lower(Strip(recipient))

\* a row of EmailDispatchLog; user_id is NoNumber for a send without user,
\* created tells where created_at lies against utcnow(): within the last
\* hour ("hour"), within the last day ("day") or before ("older")
DispatchRow(feature, recipient, user_id, created) ==
    [feature |-> feature, recipient |-> recipient, user_id |-> user_id, created |-> created]

\* the MAIL_RATE_LIMIT_* values of the configuration, 0 when unset
MailLimits(per_user_hour, per_user_day, per_feature_hour, per_recipient_day) ==
    [per_user_hour |-> per_user_hour, per_user_day |-> per_user_day,
     per_feature_hour |-> per_feature_hour, per_recipient_day |-> per_recipient_day]

\* the message of the first limit, which the route POST /send shows too
RATE_LIMITED == "Hourly email limit reached for your account. Please wait before sending another message."

\* created_at >= hour_ago
SinceHourAgo(row) == row.created = "hour"

\* created_at >= day_ago
SinceDayAgo(row) == row.created \in {"hour", "day"}

\* the message of the MailRateLimitError that is raised, "" when the call
\* returns; user_id is NoNumber when user is None
enforce_mail_rate_limit(log, limits, feature, user_id, recipient) ==
    LET feature_key == _normalize_feature(feature)
        recipient_key == _normalize_recipient(recipient)
        of_feature == {i \in 1..Len(log) : log[i].feature = feature_key}
        of_user == {i \in of_feature : log[i].user_id = user_id}
        of_recipient == {i \in of_feature : log[i].recipient = recipient_key}
        user_hour == Cardinality({i \in of_user : SinceHourAgo(log[i])})
        user_day == Cardinality({i \in of_user : SinceDayAgo(log[i])})
        recipient_day == Cardinality({i \in of_recipient : SinceDayAgo(log[i])})
        feature_hour == Cardinality({i \in of_feature : SinceHourAgo(log[i])})
    IN  IF user_id # NoNumber /\ limits.per_user_hour > 0 /\ user_hour >= limits.per_user_hour
        THEN RATE_LIMITED
        ELSE IF user_id # NoNumber /\ limits.per_user_day > 0 /\ user_day >= limits.per_user_day
        THEN "Daily email limit reached for your account. Please try again tomorrow."
        ELSE IF limits.per_recipient_day > 0 /\ recipient_day >= limits.per_recipient_day
        THEN "Too many emails have been sent to this recipient today. Please try again tomorrow."
        ELSE IF limits.per_feature_hour > 0 /\ feature_hour >= limits.per_feature_hour
        THEN "Email delivery is temporarily paused due to high volume. Please retry in a few minutes."
        ELSE ""

NoLimits == MailLimits(0, 0, 0, 0)

\* the table after the entry is added and committed; created_at is taken
\* to be the time of the insert
log_email_dispatch(log, feature, user_id, recipient) ==
    Append(log, DispatchRow(_normalize_feature(feature), _normalize_recipient(recipient),
                            user_id, "hour"))

\* the arguments of a send_email call and the limits configured for it;
\* failed_earlier tells that an earlier call ended in an SMTP exception
MailCall(feature, user_id, to, limits, failed_earlier) ==
    [fn |-> "send_email", feature |-> feature, user_id |-> user_id, to |-> to,
     limits |-> limits, failed_earlier |-> failed_earlier]

\* send_email up to the loop: the message is built and the rate limits are
\* enforced
BeginSend(log, c) ==
    IF enforce_mail_rate_limit(log, c.limits, c.feature, c.user_id, c.to) # ""
    THEN Mail("raised", 0, <<>>, <<>>, <<>>, "MailRateLimitError", FALSE)
    ELSE Mail("delivering", 0, <<>>, <<>>, <<>>, "", FALSE)

\* variant: the entry is written however the loop was left
AfterLoopAlways(log, m, c) ==
    IF m.pc \in {"sent", "raised"}
    THEN log_email_dispatch(log, c.feature, c.user_id, c.to)
    ELSE log

\* the table after the statement that follows the loop, which runs when
\* the loop was left by break
AfterLoop(log, m, c) ==
    IF m.dispatched THEN log_email_dispatch(log, c.feature, c.user_id, c.to) ELSE log

----------------------------------------------------------------------------
(* app/__init__.py: POST /send, behind login_required.  The request runs   *)
(* in a deployment whose quote-email SMTP setting is on or off.            *)

\* an account as user_has_mail_privileges reads it
User(role, can_send_mail, employee_approved) ==
    [role |-> role, can_send_mail |-> can_send_mail, employee_approved |-> employee_approved]

\* no account: the anonymous visitor
Anonymous == User(None, FALSE, FALSE)

user_has_mail_privileges(user) ==
    IF user = Anonymous THEN FALSE
    ELSE IF user.can_send_mail THEN TRUE
    ELSE IF Lower(user.role) = "super_admin" THEN TRUE
    ELSE IF Lower(user.role) = "employee" THEN user.employee_approved
    ELSE FALSE

STAFF_ONLY == "Quote emails are limited to Freight Services staff accounts."

RECIPIENT_REQUIRED == "Recipient email is required to send a quote."

\* the redirect that ends the route, with the number of send_email calls
\* made and whether the message went to the task queue
SendResponse(location, flash, send_calls, queued) ==
    [handler |-> "send_email_route", status |-> 302, location |-> location,
     flash |-> flash, send_calls |-> send_calls, queued |-> queued]

\* celery_broker: CELERY_BROKER_URL is set; queue_fails: send_email_task
\* cannot be queued; outcome: how send_email ends when it is called ("ok",
\* "MailRateLimitError" or another exception)
send_email_route(user, raw_email, celery_broker, queue_fails, outcome) ==
    LET email == Strip(raw_email)
        flash == IF outcome = "MailRateLimitError" THEN RATE_LIMITED
                 ELSE IF outcome # "ok" THEN "Failed to send email. Check SMTP settings."
                 ELSE IF celery_broker THEN "Quote email sent (fallback)."
                 ELSE "Quote email sent."
    IN  IF ~user_has_mail_privileges(user)
        THEN SendResponse("/quotes/new", STAFF_ONLY, 0, FALSE)
        ELSE IF email = ""
        THEN SendResponse("/", RECIPIENT_REQUIRED, 0, FALSE)
        ELSE IF celery_broker /\ ~queue_fails
        THEN SendResponse("/", "Quote email queued for delivery.", 0, TRUE)
        ELSE SendResponse("/", flash, 1, FALSE)

----------------------------------------------------------------------------
(* The state machine *)

NoResponse == Response("none", "none", 0, <<>>, FALSE, 0, FALSE)

NoCall == [fn |-> "none", quote_type |-> "", a |-> 0, b |-> 0, c |-> 0]

Pending == "<pending>"

\* a creation, with what the rate tables held for it: failed tells that the
\* rate calculation, if the request gets that far, finds no rate
RateCall(fn, quote_type, failed) == [fn |-> fn, quote_type |-> quote_type, failed |-> failed]

Init ==
    /\ quotes = <<>>
    /\ \E e \in Environments :
          /\ accessorialTable = e[1]
          /\ airTables = e[2]
          /\ mapsApiKey = e[3]
          /\ placesProvider = e[4]
    /\ hotshotRates = StandardHotshotRates
    /\ accCache = EmptySlot
    /\ airCache = EmptySlot
    /\ zipCache = <<>>
    /\ resp = NoResponse
    /\ call = NoCall
    /\ ret = Pending
    /\ mail = NoMail
    /\ dispatchLog = <<>>

\* GET /quotes/new
NewQuoteGet ==
    /\ accCache' = _accessorial_cache(accCache, accessorialTable)
    /\ resp' = Response("new_quote", "html", 200, <<>>, FALSE, 0, FALSE)
    /\ UNCHANGED <<mail, dispatchLog, quotes, deployment, airCache, zipCache, call, ret>>

\* POST /quotes/new
NewQuote ==
    /\ Len(quotes) < MaxQuotes
    /\ \E form \in RequestsAt(Len(quotes), zipCache, mapsApiKey) :
       \E rate \in RatesConsulted(form, mapsApiKey, placesProvider, zipCache) :
       \E acc \in {_accessorial_cache(accCache, accessorialTable)} :
       \E air \in {_air_rate_table_cache(airCache, airTables)} :
       \E out \in {new_quote(form, mapsApiKey, placesProvider, zipCache,
                             acc.value, air.value, rate, Len(quotes) + 1)} :
              /\ accCache' = acc
              /\ airCache' = IF out.air_checked THEN air ELSE airCache
              /\ zipCache' = out.zip_cache
              /\ quotes' = quotes \o out.row
              /\ resp' = out.resp
              /\ call' = RateCall("new_quote", form.quote_type, rate.failed)
    /\ UNCHANGED <<mail, dispatchLog, deployment, ret>>

\* a call of the service app.services.quote.create_quote
CreateQuote ==
    /\ Len(quotes) < MaxQuotes
    /\ \E args \in ServiceArgsAt(Len(quotes), zipCache, mapsApiKey) :
       \E rate \in RateOutcomesFor(args.quote_type) :
          \E out \in {create_quote(args, accessorialTable, rate, Len(quotes) + 1)} :
              /\ quotes' = quotes \o out.row
              /\ resp' = out.resp
              /\ call' = RateCall("create_quote", args.quote_type, rate.failed)
    /\ UNCHANGED <<mail, dispatchLog, deployment, caches, ret>>

Next == NewQuoteGet \/ NewQuote \/ CreateQuote

Spec == Init /\ [][Next]_vars

----------------------------------------------------------------------------
(* The threshold helpers called directly: Init draws the arguments, the     *)
(* actions apply the function.                                             *)

QuoteTypeArgs == {"Air", "air", "AIR", "Hotshot", "Ground"}

ThresholdCalls ==
    {[fn |-> "check_thresholds", quote_type |-> t, a |-> w, b |-> total, c |-> 0] :
        t \in QuoteTypeArgs,
        w \in {0, Lb(1199), Lb(1200), Lb(1200) + 1, Lb(1201), Lb(3000), Lb(3000) + 1},
        total \in {0, Dollars(6000), Dollars(6000) + 1}}

PieceLimitCalls ==
    {[fn |-> "check_air_piece_limit", quote_type |-> t, a |-> w, b |-> n, c |-> d] :
        t \in QuoteTypeArgs, w \in {Lb(400), Lb(900), Lb(900) + 1, Lb(901), Lb(1200)},
        n \in {-1, 0, 2, 3}, d \in {0, Lb(650), Lb(900), Lb(1400)}}

InitThresholds ==
    /\ quotes = <<>>
    /\ accessorialTable = StandardCatalog
    /\ airTables = {"ZipZone", "CostZone", "AirCostZone"}
    /\ mapsApiKey = None
    /\ placesProvider = Unused
    /\ hotshotRates = StandardHotshotRates
    /\ accCache = EmptySlot
    /\ airCache = EmptySlot
    /\ zipCache = <<>>
    /\ resp = NoResponse
    /\ call \in ThresholdCalls \cup PieceLimitCalls
    /\ ret = Pending
    /\ mail = NoMail
    /\ dispatchLog = <<>>

CheckThresholds ==
    /\ call.fn = "check_thresholds"
    /\ ret = Pending
    /\ ret' = check_thresholds(call.quote_type, call.a, call.b)
    /\ UNCHANGED <<mail, dispatchLog, quotes, deployment, caches, resp, call>>

CheckAirPieceLimit ==
    /\ call.fn = "check_air_piece_limit"
    /\ ret = Pending
    /\ ret' = check_air_piece_limit(call.quote_type, call.a, call.b, call.c)
    /\ UNCHANGED <<mail, dispatchLog, quotes, deployment, caches, resp, call>>

NextThresholds == CheckThresholds \/ CheckAirPieceLimit

SpecThresholds == InitThresholds /\ [][NextThresholds]_vars

----------------------------------------------------------------------------
(* The ZIP validator called directly, while the provider comes and goes *)

ZipPlus4 == <<"6", "0", "6", "0", "1", "-", "1", "2", "3", "4">>

ZipInputs == {Zip30301, ZipPlus4, ZipShort}

ApiKeyArgs == {None, "", "maps-key"}

ZipProviders ==
    {Provider(TRUE, "OK", {Zip30301}), Provider(TRUE, "OVER_QUERY_LIMIT", {}),
     Provider(FALSE, "OK", {})}
    \cup {Unreachable(e) : e \in TransportErrors}

InitZip ==
    /\ quotes = <<>>
    /\ accessorialTable = StandardCatalog
    /\ airTables = {"ZipZone", "CostZone", "AirCostZone"}
    /\ mapsApiKey \in {None, "maps-key"}
    /\ placesProvider \in ZipProviders
    /\ hotshotRates = StandardHotshotRates
    /\ accCache = EmptySlot
    /\ airCache = EmptySlot
    /\ zipCache = <<>>
    /\ resp = NoResponse
    /\ call = NoCall
    /\ ret = Pending
    /\ mail = NoMail
    /\ dispatchLog = <<>>

\* validate_us_zip(zip_code, api_key=api_key)
ValidateUsZip ==
    /\ \E zip_code \in ZipInputs, api_key \in ApiKeyArgs :
          \E out \in {validate_us_zip(zip_code, api_key, mapsApiKey, placesProvider,
                                     zipCache)} :
              /\ call' = [fn |-> "validate_us_zip", zip_code |-> zip_code,
                          api_key |-> api_key]
              /\ ret' = [result |-> out.result, raised |-> Raised(out.result),
                         requests |-> out.requests]
              /\ zipCache' = out.cache
    /\ UNCHANGED <<mail, dispatchLog, quotes, deployment, accCache, airCache, resp>>

\* the provider starts or stops failing
ProviderChanges ==
    /\ \E p \in ZipProviders : p # placesProvider /\ placesProvider' = p
    /\ UNCHANGED <<mail, dispatchLog, quotes, accessorialTable, airTables, mapsApiKey, hotshotRates,
                   caches, resp, call, ret>>

NextZip == ValidateUsZip \/ ProviderChanges

SpecZip == InitZip /\ [][NextZip]_vars

----------------------------------------------------------------------------
(* The ZIP validator called again and again with a few ZIPs and keys, while *)
(* the provider comes and goes.  Each call carries the first result that    *)
(* every (zip, key) pair produced in the calls before it.                   *)

CachedZipInputs == {Zip30301, Zip60601}

CachedKeyArgs == {None, "other-key"}

\* a call and, in earlier, the [zip_code, api_key, result] first produced by
\* the calls before it
ZipCall(zip_code, api_key, earlier) ==
    [fn |-> "validate_us_zip", zip_code |-> zip_code, api_key |-> api_key, earlier |-> earlier]

\* earlier, with the result of the call that has just returned
Produced(c, r) ==
    IF \/ c.zip_code = <<>>
       \/ r.raised
       \/ \E e \in c.earlier : e.zip_code = c.zip_code /\ e.api_key = c.api_key
    THEN c.earlier
    ELSE c.earlier \cup {[zip_code |-> c.zip_code, api_key |-> c.api_key, result |-> r.result]}

InitZipCache ==
    /\ quotes = <<>>
    /\ accessorialTable = StandardCatalog
    /\ airTables = {"ZipZone", "CostZone", "AirCostZone"}
    /\ mapsApiKey = "maps-key"
    /\ placesProvider \in ZipProviders
    /\ hotshotRates = StandardHotshotRates
    /\ accCache = EmptySlot
    /\ airCache = EmptySlot
    /\ zipCache = <<>>
    /\ resp = NoResponse
    /\ call = ZipCall(<<>>, None, {})
    /\ ret = [result |-> <<FALSE, "">>, raised |-> FALSE, requests |-> 0]
    /\ mail = NoMail
    /\ dispatchLog = <<>>

\* validate_us_zip(zip_code, api_key=api_key), once more
ValidateUsZipAgain ==
    /\ \E zip_code \in CachedZipInputs, api_key \in CachedKeyArgs :
          \E out \in {validate_us_zip(zip_code, api_key, mapsApiKey, placesProvider,
                                     zipCache)} :
              /\ call' = ZipCall(zip_code, api_key, Produced(call, ret))
              /\ ret' = [result |-> out.result, raised |-> Raised(out.result),
                         requests |-> out.requests]
              /\ zipCache' = out.cache
    /\ UNCHANGED <<mail, dispatchLog, quotes, deployment, accCache, airCache, resp>>

NextZipCache == ValidateUsZipAgain \/ ProviderChanges

SpecZipCache == InitZipCache /\ [][NextZipCache]_vars

----------------------------------------------------------------------------
(* normalize_rate_set called directly *)

MaxRateSetLen == 3

RateSetAlphabet == {" ", "\t", "A", "a", "-"}

RECURSIVE TextsUpTo(_)
TextsUpTo(n) ==
    IF n = 0 THEN {<<>>}
    ELSE LET shorter == TextsUpTo(n - 1)
         IN  shorter \cup {Append(t, c) : t \in shorter, c \in RateSetAlphabet}

RateSetInputs == {NoText} \cup TextsUpTo(MaxRateSetLen)

InitRateSet ==
    /\ quotes = <<>>
    /\ accessorialTable = StandardCatalog
    /\ airTables = {"ZipZone", "CostZone", "AirCostZone"}
    /\ mapsApiKey = None
    /\ placesProvider = Unused
    /\ hotshotRates = StandardHotshotRates
    /\ accCache = EmptySlot
    /\ airCache = EmptySlot
    /\ zipCache = <<>>
    /\ resp = NoResponse
    /\ \E raw \in RateSetInputs :
          call = [fn |-> "normalize_rate_set", raw_value |-> raw, returned |-> FALSE]
    /\ ret = <<>>
    /\ mail = NoMail
    /\ dispatchLog = <<>>

NormalizeRateSet ==
    /\ call.fn = "normalize_rate_set"
    /\ ~call.returned
    /\ ret' = normalize_rate_set(call.raw_value)
    /\ call' = [call EXCEPT !.returned = TRUE]
    /\ UNCHANGED <<mail, dispatchLog, quotes, deployment, caches, resp>>

NextRateSet == NormalizeRateSet

SpecRateSet == InitRateSet /\ [][NextRateSet]_vars

----------------------------------------------------------------------------
(* The hotshot rate helpers called directly *)

MilesArgs == {50, 100, 150, 200, 250, 400}

ZoneArgs == {"A", "B", "C", "X"}

RateSetArgs == {RATE_SET_DEFAULT, Agr, Zeta}

HotshotCalls ==
    {[fn |-> "get_hotshot_zone_by_miles", miles |-> m, zone |-> "", rate_set |-> r,
      returned |-> FALSE] : m \in MilesArgs, r \in RateSetArgs}
    \cup {[fn |-> "get_current_hotshot_rate", miles |-> 0, zone |-> z, rate_set |-> r,
           returned |-> FALSE] : z \in ZoneArgs, r \in RateSetArgs}

InitHotshot ==
    /\ quotes = <<>>
    /\ accessorialTable = StandardCatalog
    /\ airTables = {"ZipZone", "CostZone", "AirCostZone"}
    /\ mapsApiKey = None
    /\ placesProvider = Unused
    /\ hotshotRates \in HotshotTables
    /\ accCache = EmptySlot
    /\ airCache = EmptySlot
    /\ zipCache = <<>>
    /\ resp = NoResponse
    /\ call \in HotshotCalls
    /\ ret = <<>>
    /\ mail = NoMail
    /\ dispatchLog = <<>>

GetHotshotZoneByMiles ==
    /\ call.fn = "get_hotshot_zone_by_miles"
    /\ ~call.returned
    /\ ret' = get_hotshot_zone_by_miles(hotshotRates, call.miles, call.rate_set)
    /\ call' = [call EXCEPT !.returned = TRUE]
    /\ UNCHANGED <<mail, dispatchLog, quotes, deployment, caches, resp>>

GetCurrentHotshotRate ==
    /\ call.fn = "get_current_hotshot_rate"
    /\ ~call.returned
    /\ ret' = get_current_hotshot_rate(hotshotRates, call.zone, call.rate_set)
    /\ call' = [call EXCEPT !.returned = TRUE]
    /\ UNCHANGED <<mail, dispatchLog, quotes, deployment, caches, resp>>

\* the zone a lookup returned, passed on with the same rate set:
\* get_current_hotshot_rate(get_hotshot_zone_by_miles(m, rate_set=r), rate_set=r)
GetRateOfReturnedZone ==
    /\ call.fn = "get_hotshot_zone_by_miles"
    /\ call.returned
    /\ ret' = get_current_hotshot_rate(hotshotRates, ret, call.rate_set)
    /\ call' = [call EXCEPT !.fn = "get_current_hotshot_rate", !.zone = ret]
    /\ UNCHANGED <<mail, dispatchLog, quotes, deployment, caches, resp>>

NextHotshot == GetHotshotZoneByMiles \/ GetCurrentHotshotRate \/ GetRateOfReturnedZone

SpecHotshot == InitHotshot /\ [][NextHotshot]_vars

----------------------------------------------------------------------------
(* Reading stored quotes: app/services/quote.py get_quote, app/api.py      *)
(* api_get_quote, app/quotes/routes.py lookup_quote, the email request     *)
(* forms and email_quote_to_me.  A public quote_id is a sequence of        *)
(* characters.                                                             *)

Rep(c, n) == [i \in 1..n |-> c]

HexDigits == Digits \cup {"a", "b", "c", "d", "e", "f", "A", "B", "C", "D", "E", "F"}

\* str.replace(pat, ""): the occurrences of pat, left to right, are dropped
RECURSIVE RemoveAll(_, _)
RemoveAll(text, pat) ==
    IF Len(text) < Len(pat)
    THEN text
    ELSE IF SubSeq(text, 1, Len(pat)) = pat
         THEN RemoveAll(SubSeq(text, Len(pat) + 1, Len(text)), pat)
         ELSE <<Head(text)>> \o RemoveAll(Tail(text), pat)

\* str.strip("{}")
RECURSIVE StripBraces(_)
StripBraces(text) ==
    IF text # <<>> /\ Head(text) \in {"{", "}"}
    THEN StripBraces(Tail(text))
    ELSE IF text # <<>> /\ text[Len(text)] \in {"{", "}"}
         THEN StripBraces(SubSeq(text, 1, Len(text) - 1))
         ELSE text

\* uuid.UUID(hex): TRUE when the text parses, FALSE when it raises ValueError
UUID(hex) ==
    LET plain == RemoveAll(RemoveAll(hex, <<"u", "r", "n", ":">>),
                           <<"u", "u", "i", "d", ":">>)
        digits == RemoveAll(StripBraces(plain), <<"-">>)
    IN  /\ Len(digits) = 32
        /\ \A i \in 1..Len(digits) : digits[i] \in HexDigits

\* the text "{}"
EmptyObjectText == [valid |-> TRUE, members |-> <<>>]

\* a text that is no JSON document
MalformedText == [valid |-> FALSE, members |-> <<>>]

\* a NULL or empty quote_metadata column
NullText == [valid |-> FALSE, members |-> <<>>, null |-> TRUE]

\* quote.quote_metadata or "{}"
OrEmptyObject(text) == IF text = NullText THEN EmptyObjectText ELSE text

\* json.loads: the parsed object, or the JSONDecodeError it raises
json_loads(text) ==
    IF text.valid
    THEN [raised |-> "", value |-> JsonLoads(text)]
    ELSE [raised |-> "json.JSONDecodeError", value |-> <<>>]

\* metadata.get(key, default)
MetadataGet(metadata, key, default) ==
    IF key \in DOMAIN metadata THEN metadata[key] ELSE default

\* metadata["accessorial_total"] = float(metadata.get("accessorial_total", 0.0) or 0.0)
WithAccessorialTotal(metadata) ==
    LET found == MetadataGet(metadata, "accessorial_total", 0)
        value == IF found = NoNumber THEN 0 ELSE found
    IN  [k \in DOMAIN metadata \cup {"accessorial_total"} |->
            IF k = "accessorial_total" THEN value ELSE metadata[k]]

\* a Quote row with its public id and the text of its metadata column
StoredQuote(row, quote_id, quote_metadata) ==
    [f \in DOMAIN row \cup {"quote_id"} |->
        IF f = "quote_id" THEN quote_id
        ELSE IF f = "quote_metadata" THEN quote_metadata
        ELSE row[f]]

\* filter_by(quote_id=quote_id).first(): index of the row, 0 for None
FirstByQuoteId(table, quote_id) ==
    IF \E i \in 1..Len(table) : table[i].quote_id = quote_id
    THEN CHOOSE i \in 1..Len(table) :
            /\ table[i].quote_id = quote_id
            /\ \A j \in 1..(i - 1) : table[j].quote_id # quote_id
    ELSE 0

\* what a read request answered: the status, the template rendered, the
\* message flashed, the quote and metadata handed to the template, the
\* derived display flag, the total shown, the exception that escaped the
\* handler ("" for none) and whether a rate calculation was called
ReadResponse(handler, status, template, flash, quote, metadata, exceeds_threshold, total, raised) ==
    [handler |-> handler, status |-> status, template |-> template,
     flash |-> flash, quote |-> quote, metadata |-> metadata,
     exceeds_threshold |-> exceeds_threshold, total |-> total,
     raised |-> raised, rate_lookup |-> FALSE]

NotFound(handler) ==
    ReadResponse(handler, 404, "", "", NoRow, <<>>, FALSE, 0, "")

ServerError(handler, raised) ==
    ReadResponse(handler, 500, "", "", NoRow, <<>>, FALSE, 0, raised)

get_quote(table, quote_id) ==
    LET i == FirstByQuoteId(table, quote_id)
    IN  IF i = 0 THEN NoRow ELSE <<table[i]>>

\* GET /api/quote/<quote_id>: the answer and the table as the request leaves it
api_get_quote(table, quote_id) ==
    LET quote_obj == get_quote(table, quote_id)
    IN  IF quote_obj = NoRow
        THEN [resp |-> ReadResponse("api_get_quote", 404, "json", "Quote not found",
                                    NoRow, <<>>, FALSE, 0, ""),
              quotes |-> table]
        ELSE LET text == quote_obj[1].quote_metadata
                 metadata == IF text = NullText THEN <<>> ELSE json_loads(text).value
             IN  [resp |-> ReadResponse("api_get_quote", 200, "json", "", quote_obj,
                                        metadata, FALSE, quote_obj[1].total, ""),
                  quotes |-> table]

INVALID_QUOTE_ID == "Please enter a valid Quote ID."

QUOTE_NOT_FOUND == "Quote not found. Please verify the Quote ID and try again."

\* POST /quotes/lookup
lookup_quote(table, raw_quote_id) ==
    LET quote_id == StripChars(raw_quote_id)
        i == FirstByQuoteId(table, quote_id)
    IN  IF ~UUID(quote_id)
        THEN [resp |-> ReadResponse("lookup_quote", 200, "lookup_quote.html",
                                    INVALID_QUOTE_ID, NoRow, <<>>, FALSE, 0, ""),
              quotes |-> table]
        ELSE IF i = 0
        THEN [resp |-> ReadResponse("lookup_quote", 200, "lookup_quote.html",
                                    QUOTE_NOT_FOUND, NoRow, <<>>, FALSE, 0, ""),
              quotes |-> table]
        ELSE LET quote == table[i]
                 metadata == json_loads(OrEmptyObject(quote.quote_metadata)).value
                 threshold_warning ==
                     check_thresholds(quote.quote_type, quote.weight, quote.total)
             IN  [resp |-> ReadResponse("lookup_quote", 200, "quote_result.html", "",
                                        <<quote>>, metadata, threshold_warning # "",
                                        quote.total, ""),
                  quotes |-> table]

\* variant: the total with the administrative fee is written back to the row
_render_email_request_storing_fee(table, quote_id, handler, admin_fee) ==
    LET i == FirstByQuoteId(table, quote_id)
    IN  IF i = 0
        THEN [resp |-> NotFound(handler), quotes |-> table]
        ELSE LET quote == table[i]
                 loaded == json_loads(OrEmptyObject(quote.quote_metadata))
             IN  IF loaded.raised # ""
                 THEN [resp |-> ServerError(handler, loaded.raised), quotes |-> table]
                 ELSE [resp |-> ReadResponse(handler, 200, "email_request.html", "",
                                             <<quote>>,
                                             WithAccessorialTotal(loaded.value),
                                             FALSE, quote.total + admin_fee, ""),
                       quotes |-> [table EXCEPT ![i].total = quote.total + admin_fee]]

\* the email request form of a quote; json.loads is called outside any try
_render_email_request(table, quote_id, handler, admin_fee) ==
    LET i == FirstByQuoteId(table, quote_id)
    IN  IF i = 0
        THEN [resp |-> NotFound(handler), quotes |-> table]
        ELSE LET quote == table[i]
                 loaded == json_loads(OrEmptyObject(quote.quote_metadata))
             IN  IF loaded.raised # ""
                 THEN [resp |-> ServerError(handler, loaded.raised), quotes |-> table]
                 ELSE [resp |-> ReadResponse(handler, 200, "email_request.html", "",
                                             <<quote>>,
                                             WithAccessorialTotal(loaded.value),
                                             FALSE, quote.total + admin_fee, ""),
                       quotes |-> table]

BOOKING_ADMIN_FEE == Dollars(15)

\* GET /quotes/<quote_id>/email
email_request_form(table, quote_id) ==
    _render_email_request(table, quote_id, "email_request_form", BOOKING_ADMIN_FEE)

\* GET /quotes/<quote_id>/email-volume
email_volume_request_form(table, quote_id) ==
    _render_email_request(table, quote_id, "email_volume_request_form", 0)

\* the flashed message up to the address
EMAIL_SENT == "Quote details sent to "

EMAIL_FAILED == "Failed to send email. Please try again later."

\* POST /quotes/<quote_id>/email-self; delivered tells whether send_email
\* returned or raised
email_quote_to_me(table, quote_id, delivered) ==
    LET i == FirstByQuoteId(table, quote_id)
    IN  IF i = 0
        THEN [resp |-> NotFound("email_quote_to_me"), quotes |-> table]
        ELSE LET quote == table[i]
                 loaded == json_loads(OrEmptyObject(quote.quote_metadata))
                 threshold_warning ==
                     check_thresholds(quote.quote_type, quote.weight, quote.total)
             IN  IF loaded.raised # ""
                 THEN [resp |-> ServerError("email_quote_to_me", loaded.raised),
                       quotes |-> table]
                 ELSE [resp |-> ReadResponse("email_quote_to_me", 200,
                                             "quote_result.html",
                                             IF delivered THEN EMAIL_SENT
                                             ELSE EMAIL_FAILED,
                                             <<quote>>,
                                             WithAccessorialTotal(loaded.value),
                                             threshold_warning # "", quote.total, ""),
                       quotes |-> table]

----------------------------------------------------------------------------
(* Stored quotes that are read back *)

Uuid(a, b) == Rep(a, 8) \o <<"-">> \o Rep(b, 4) \o <<"-">> \o Rep("4", 4) \o <<"-">> \o Rep(b, 4) \o <<"-">> \o Rep(a, 12)

QuoteIdOne == Uuid("1", "a")

QuoteIdTwo == Uuid("2", "B")

QuoteIdUnknown == Uuid("9", "f")

\* a readable id as the lookup tests store it
QuoteIdReadable == <<"Q", "-", "H", "J", "K", "M", "N", "P", "2", "3">>

NotAUuid == <<"n", "o", "t", "-", "a", "-", "u", "u", "i", "d">>

Padded(text) == <<" ">> \o text \o <<" ">>

StoredMetadata ==
    [accessorials |-> << <<"Liftgate", Dollars(10)>> >>,
     accessorial_total |-> Dollars(10), miles |-> 120, pieces |-> 3,
     details |-> <<>>]

\* a hotshot quote within the limits, its metadata as json.dumps wrote it
StoredHotshot ==
    StoredQuote(QuoteRow(1, "Hotshot", Zip30301, Zip60601, Lb(500), "Actual", Lb(500), 0, 3, 0, 0, 0, DEFAULT_RATE_SET, None, Dollars(210), StoredMetadata, "", "203.0.113.7"),
                QuoteIdOne, JsonDumps(StoredMetadata))

\* an air quote over the limits whose metadata column holds "not-json-text"
StoredMalformed ==
    StoredQuote(QuoteRow(2, "Air", Zip30301, Zip60601, Lb(1300), "Actual", Lb(1300), 0, 5, 0, 0, 0, DEFAULT_RATE_SET, None, Dollars(6500), StoredMetadata, THRESHOLD_WARNING, "203.0.113.7"),
                QuoteIdTwo, MalformedText)

\* a quote with a readable id and no metadata
StoredReadable ==
    StoredQuote(QuoteRow(3, "Hotshot", Zip30301, Zip60601, Lb(500), "Actual", Lb(500), 0, 1, 0, 0, 0, DEFAULT_RATE_SET, None, Dollars(199), StoredMetadata, "", "203.0.113.7"),
                QuoteIdReadable, NullText)

StoredTables ==
    {<<StoredHotshot>>, <<StoredMalformed>>, <<StoredReadable>>,
     <<StoredHotshot, StoredMalformed>>, <<StoredHotshot, StoredReadable>>,
     <<StoredMalformed, StoredReadable>>,
     <<StoredHotshot, StoredMalformed, StoredReadable>>}

\* quote ids in a route path or an argument
PathQuoteIds == {QuoteIdOne, QuoteIdTwo, QuoteIdReadable, QuoteIdUnknown}

\* the stored readable id as typed in lower case
QuoteIdReadableLower == <<"q", "-", "h", "j", "k", "m", "n", "p", "2", "3">>

\* a readable id that no quote has
QuoteIdReadableUnknown == <<"Q", "-", "A", "B", "C", "D", "E", "F", "G", "H">>

\* quote ids typed into the lookup form
FormQuoteIds ==
    PathQuoteIds \cup {Padded(QuoteIdOne), NotAUuid, <<>>, QuoteIdReadableUnknown,
                       Padded(QuoteIdReadableLower)}

\* the quote_id field posted to /quotes/lookup
LookupCall(quote_id) ==
    [fn |-> "lookup_quote", quote_id |-> quote_id, returned |-> FALSE, again |-> FALSE]

NoRead == ReadResponse("none", 0, "", "", NoRow, <<>>, FALSE, 0, "")

\* a direct call of get_quote; again tells that it repeats the call before it
GetCall(quote_id, returned, again) ==
    [fn |-> "get_quote", quote_id |-> quote_id, returned |-> returned, again |-> again]

InitRead ==
    /\ quotes \in StoredTables
    /\ accessorialTable = StandardCatalog
    /\ airTables = {"ZipZone", "CostZone", "AirCostZone"}
    /\ mapsApiKey = None
    /\ placesProvider = Unused
    /\ hotshotRates = StandardHotshotRates
    /\ accCache = EmptySlot
    /\ airCache = EmptySlot
    /\ zipCache = <<>>
    /\ resp = NoRead
    /\ call = GetCall(<<>>, FALSE, FALSE)
    /\ ret = NoRow
    /\ mail = NoMail
    /\ dispatchLog = <<>>

GetQuote ==
    /\ \E quote_id \in PathQuoteIds :
          /\ ret' = get_quote(quotes, quote_id)
          /\ call' = GetCall(quote_id, TRUE, call.returned /\ call.quote_id = quote_id)
    /\ UNCHANGED <<mail, dispatchLog, quotes, deployment, caches, resp>>

ApiGetQuote ==
    /\ \E quote_id \in PathQuoteIds :
          \E out \in {api_get_quote(quotes, quote_id)} :
              /\ quotes' = out.quotes
              /\ resp' = out.resp
    /\ UNCHANGED <<mail, dispatchLog, deployment, caches, call, ret>>

LookupQuote ==
    /\ \E quote_id \in FormQuoteIds :
          \E out \in {lookup_quote(quotes, quote_id)} :
              /\ quotes' = out.quotes
              /\ resp' = out.resp
              /\ call' = LookupCall(quote_id)
    /\ UNCHANGED <<mail, dispatchLog, deployment, caches, ret>>

EmailRequestForm ==
    /\ \E quote_id \in PathQuoteIds :
          \E out \in {email_request_form(quotes, quote_id)} :
              /\ quotes' = out.quotes
              /\ resp' = out.resp
    /\ UNCHANGED <<mail, dispatchLog, deployment, caches, call, ret>>

EmailVolumeRequestForm ==
    /\ \E quote_id \in PathQuoteIds :
          \E out \in {email_volume_request_form(quotes, quote_id)} :
              /\ quotes' = out.quotes
              /\ resp' = out.resp
    /\ UNCHANGED <<mail, dispatchLog, deployment, caches, call, ret>>

EmailQuoteToMe ==
    /\ \E quote_id \in PathQuoteIds, delivered \in BOOLEAN :
          \E out \in {email_quote_to_me(quotes, quote_id, delivered)} :
              /\ quotes' = out.quotes
              /\ resp' = out.resp
    /\ UNCHANGED <<mail, dispatchLog, deployment, caches, call, ret>>

NextRead ==
    \/ GetQuote
    \/ ApiGetQuote
    \/ LookupQuote
    \/ EmailRequestForm
    \/ EmailVolumeRequestForm
    \/ EmailQuoteToMe

SpecRead == InitRead /\ [][NextRead]_vars

----------------------------------------------------------------------------
(* app/api.py: POST /api/quote *)

\* data.get(key, default) on the JSON body
DataGet(data, key, default) == IF key \in DOMAIN data THEN data[key] ELSE default

INVALID_QUOTE_TYPE == "Invalid quote_type"

\* the arguments api_create_quote hands to create_quote
ApiArgs(data, quote_type) ==
    [quote_type |-> quote_type, origin |-> DataGet(data, "origin", NoText),
     destination |-> DataGet(data, "destination", NoText),
     weight |-> DataGet(data, "weight", 0), accessorial_total |-> 0,
     pieces |-> DataGet(data, "pieces", 1), length |-> DataGet(data, "length", 0),
     width |-> DataGet(data, "width", 0), height |-> DataGet(data, "height", 0),
     dim_weight |-> DataGet(data, "dim_weight", 0),
     accessorials |-> DataGet(data, "accessorials", <<>>), rate_set |-> NoText]

\* the whole POST: [resp, row]; only quote_type is checked, every other
\* field goes to create_quote as it came; an exception of the service
\* leaves the handler
api_create_quote(data, table, rate, id) ==
    LET quote_type == DataGet(data, "quote_type", "Hotshot")
        out == create_quote(ApiArgs(data, quote_type), table, rate, id)
    IN  IF quote_type \notin {"Hotshot", "Air"}
        THEN [resp |-> Response("api_create_quote", "json", 400,
                                <<INVALID_QUOTE_TYPE>>, FALSE, 0, FALSE),
              row |-> NoRow]
        ELSE IF out.row = NoRow
        THEN [resp |-> [out.resp EXCEPT !.handler = "api_create_quote"], row |-> NoRow]
        ELSE [resp |-> Response("api_create_quote", "json", 201, <<>>, TRUE, id,
                                out.resp.exceeds_threshold),
              row |-> out.row]

----------------------------------------------------------------------------
(* JSON bodies posted to /api/quote *)

Payload(quote_type, origin, shipment, accessorials) ==
    [quote_type |-> quote_type, origin |-> origin, destination |-> Zip60601,
     weight |-> shipment.weight, pieces |-> shipment.pieces,
     length |-> shipment.length, width |-> shipment.width,
     height |-> shipment.height, dim_weight |-> shipment.dim_weight,
     accessorials |-> accessorials]

\* a body that names the route and the weight only
MinimalPayload == [origin |-> Zip30301, destination |-> Zip60601, weight |-> 250]

PayloadQuoteTypes == {"Hotshot", "Air", "Ground", "air"}

\* the last four: a negative weight, no pieces, a negative dimension and
\* 301 lb on one piece
PayloadShipments ==
    {ServiceShipment(250, 1, 0, 0, 0, 0),
     ServiceShipment(600, 2, 48, 40, 36, 0),
     ServiceShipment(-5, 1, 0, 0, 0, 0),
     ServiceShipment(250, 0, 0, 0, 0, 0),
     ServiceShipment(250, 1, -4, 30, 40, 0),
     ServiceShipment(301, 1, 0, 0, 0, 0)}

Payloads ==
    {Payload(t, o, sh, sel) :
        t \in PayloadQuoteTypes, o \in {Zip30301, ZipShort},
        sh \in PayloadShipments, sel \in {<<>>, <<"Liftgate", "Guarantee">>}}
    \cup {MinimalPayload}

FollowUpPayloads ==
    {MinimalPayload,
     Payload("Air", Zip30301, ServiceShipment(301, 1, 0, 0, 0, 0), <<>>),
     Payload("Ground", Zip30301, ServiceShipment(250, 1, 0, 0, 0, 0), <<>>)}

PayloadsAt(stored) == IF stored = 0 THEN Payloads ELSE FollowUpPayloads

ApiCall(data) == [fn |-> "api_create_quote", data |-> data]

InitApi ==
    /\ quotes = <<>>
    /\ accessorialTable \in Catalogs
    /\ airTables = {"ZipZone", "CostZone", "AirCostZone"}
    /\ mapsApiKey = None
    /\ placesProvider = Unused
    /\ hotshotRates = StandardHotshotRates
    /\ accCache = EmptySlot
    /\ airCache = EmptySlot
    /\ zipCache = <<>>
    /\ resp = NoResponse
    /\ call = NoCall
    /\ ret = Pending
    /\ mail = NoMail
    /\ dispatchLog = <<>>

\* POST /api/quote
ApiCreateQuote ==
    /\ Len(quotes) < MaxQuotes
    /\ \E data \in PayloadsAt(Len(quotes)) :
       \E rate \in RateOutcomesFor(DataGet(data, "quote_type", "Hotshot")) :
          \E out \in {api_create_quote(data, accessorialTable, rate, Len(quotes) + 1)} :
              /\ quotes' = quotes \o out.row
              /\ resp' = out.resp
              /\ call' = ApiCall(data)
    /\ UNCHANGED <<mail, dispatchLog, deployment, caches, ret>>

NextApi == ApiCreateQuote

SpecApi == InitApi /\ [][NextApi]_vars

----------------------------------------------------------------------------
(* Concurrent creations against the Quote table.  new_quote and            *)
(* create_quote add one Quote to their session and commit.  The commit     *)
(* flushes an INSERT, for which the column default generates the public    *)
(* quote_id, and then makes the row durable.  The store keeps a unique     *)
(* index on quote_id: an INSERT waits while another transaction holds the  *)
(* same uncommitted key and fails with an integrity error when a committed *)
(* row has it.                                                             *)

MaxRequests == 3

RequestIds == 1..MaxRequests

\* the values the quote_id generator can produce; two, so that they collide
GeneratedQuoteIds == {QuoteIdOne, QuoteIdTwo}

CreatingHandlers == {"new_quote", "create_quote"}

INTEGRITY_ERROR == "sqlalchemy.exc.IntegrityError"

\* the Quote object a handler adds to its session, before the INSERT: the
\* route stores the title-cased type, the client address and the joined
\* warnings, the service the type as given and no address
PendingQuote(handler) ==
    IF handler = "new_quote"
    THEN QuoteRow(0, Title("air"), Zip30301, Zip60601, Lb(250), "Actual", Lb(250), 0, 1, 0, 0, 0, DEFAULT_RATE_SET, None, Dollars(1000), StoredMetadata, "", "203.0.113.7")
    ELSE QuoteRow(0, "Hotshot", Zip30301, Zip60601, Lb(250), "Actual", Lb(250), 0, 1, 0, 0, 0, DEFAULT_RATE_SET, "B", Dollars(1000), StoredMetadata, "", None)

Session(pc, handler, quote) == [pc |-> pc, handler |-> handler, quote |-> quote]

IdleSession == Session("idle", "", NoRow)

\* the uncommitted rows of the other transactions
InFlight(sessions, request) ==
    {sessions[r].quote[1] : r \in {o \in RequestIds \ {request} : sessions[o].pc = "inserted"}}

\* variant: the table has no unique index on quote_id
UniqueViolationUnchecked(table, quote_id) == FALSE

\* the unique index on quote_id finds a committed row with this key
UniqueViolation(table, quote_id) ==
    \E i \in 1..Len(table) : table[i].quote_id = quote_id

\* the primary key the INSERT assigns
NextRowId(table, sessions) ==
    Len(table) + Cardinality({r \in RequestIds : sessions[r].pc = "inserted"}) + 1

StoreResponse(handler, status, errors, saved) ==
    Response(handler, "html", status, errors, TRUE, saved, FALSE)

InitStore ==
    /\ quotes = <<>>
    /\ accessorialTable = StandardCatalog
    /\ airTables = {"ZipZone", "CostZone", "AirCostZone"}
    /\ mapsApiKey = None
    /\ placesProvider = Unused
    /\ hotshotRates = StandardHotshotRates
    /\ accCache = EmptySlot
    /\ airCache = EmptySlot
    /\ zipCache = <<>>
    /\ resp = NoResponse
    /\ call = [r \in RequestIds |-> IdleSession]
    /\ ret = Pending
    /\ mail = NoMail
    /\ dispatchLog = <<>>

\* q = Quote(...); db.session.add(q)
SessionAdd ==
    /\ \E r \in RequestIds, handler \in CreatingHandlers :
          /\ call[r].pc = "idle"
          /\ call' = [call EXCEPT ![r] = Session("added", handler, <<PendingQuote(handler)>>)]
    /\ UNCHANGED <<mail, dispatchLog, quotes, deployment, caches, resp, ret>>

\* the flush inside commit(): the INSERT with a generated quote_id
SessionInsert ==
    /\ \E r \in RequestIds, quote_id \in GeneratedQuoteIds :
          /\ call[r].pc = "added"
          /\ \A other \in InFlight(call, r) : other.quote_id # quote_id
          /\ IF UniqueViolation(quotes, quote_id)
             THEN /\ call' = [call EXCEPT ![r] = Session("failed", call[r].handler, NoRow)]
                  /\ resp' = StoreResponse(call[r].handler, 500, <<INTEGRITY_ERROR>>, 0)
             ELSE LET row == StoredQuote(call[r].quote[1], quote_id,
                                         call[r].quote[1].quote_metadata)
                      id == NextRowId(quotes, call)
                  IN  /\ call' = [call EXCEPT ![r] =
                                     Session("inserted", call[r].handler,
                                             <<[row EXCEPT !.id = id]>>)]
                      /\ resp' = resp
    /\ UNCHANGED <<mail, dispatchLog, quotes, deployment, caches, ret>>

\* the end of commit(): the inserted row becomes durable
SessionCommit ==
    /\ \E r \in RequestIds :
          /\ call[r].pc = "inserted"
          /\ quotes' = quotes \o call[r].quote
          /\ call' = [call EXCEPT ![r] = Session("done", call[r].handler, call[r].quote)]
          /\ resp' = StoreResponse(call[r].handler, 200, <<>>, call[r].quote[1].id)
    /\ UNCHANGED <<mail, dispatchLog, deployment, caches, ret>>

NextStore == SessionAdd \/ SessionInsert \/ SessionCommit

SpecStore == InitStore /\ [][NextStore]_vars

----------------------------------------------------------------------------
(* send_email against a mail server that answers or fails *)

DeliveryOutcomes == {"ok", OTHER_SMTP_ERROR} \cup transient_errors

Jitters == 0..2

InitMail ==
    /\ quotes = <<>>
    /\ accessorialTable = StandardCatalog
    /\ airTables = {"ZipZone", "CostZone", "AirCostZone"}
    /\ mapsApiKey = None
    /\ placesProvider = Unused
    /\ hotshotRates = StandardHotshotRates
    /\ accCache = EmptySlot
    /\ airCache = EmptySlot
    /\ zipCache = <<>>
    /\ resp = NoResponse
    /\ call = NoCall
    /\ ret = Pending
    /\ mail = NoMail
    /\ dispatchLog = <<>>

\* send_email up to the loop, in a deployment without rate limits
SendEmail ==
    /\ mail.pc = "idle"
    /\ \E c \in {MailCall("quote_email", 1, "ops@example.com", NoLimits, FALSE)} :
          /\ call' = c
          /\ mail' = BeginSend(dispatchLog, c)
    /\ UNCHANGED <<quotes, deployment, caches, resp, ret, dispatchLog>>

\* one pass of the loop, and the dispatch entry when the pass left it
Deliver ==
    /\ mail.pc = "delivering"
    /\ mail.attempt < max_attempts
    /\ \E outcome \in DeliveryOutcomes, jitter \in Jitters :
          \E m \in {DeliveryAttempt(mail, outcome, jitter)} :
             /\ mail' = m
             /\ dispatchLog' = AfterLoop(dispatchLog, m, call)
    /\ UNCHANGED <<quotes, deployment, caches, resp, call, ret>>

NextMail == SendEmail \/ Deliver

SpecMail == InitMail /\ [][NextMail]_vars

----------------------------------------------------------------------------
(* POST /send by the accounts of a deployment *)

Users ==
    {User(role, can_send_mail, employee_approved) :
        role \in {"super_admin", "SUPER_ADMIN", "employee", "customer"},
        can_send_mail \in BOOLEAN, employee_approved \in BOOLEAN}

RecipientFields == {"", " ", "customer@example.com"}

SendOutcomes == {"ok", "MailRateLimitError", OTHER_SMTP_ERROR}

\* a POST /send: who posts, the email field, and the deployment it meets
SendCall(user, email, smtp_enabled, celery_broker) ==
    [fn |-> "send_email_route", user |-> user, email |-> email,
     smtp_enabled |-> smtp_enabled, celery_broker |-> celery_broker]

NoSendCall == [fn |-> "none", user |-> Anonymous, email |-> "", smtp_enabled |-> TRUE, celery_broker |-> FALSE]

NoSend == [handler |-> "none", status |-> 0, location |-> "", flash |-> "", send_calls |-> 0, queued |-> FALSE]

InitSend ==
    /\ quotes = <<>>
    /\ accessorialTable = StandardCatalog
    /\ airTables = {"ZipZone", "CostZone", "AirCostZone"}
    /\ mapsApiKey = None
    /\ placesProvider = Unused
    /\ hotshotRates = StandardHotshotRates
    /\ accCache = EmptySlot
    /\ airCache = EmptySlot
    /\ zipCache = <<>>
    /\ resp = NoSend
    /\ call = NoSendCall
    /\ ret = Pending
    /\ mail = NoMail
    /\ dispatchLog = <<>>

SendEmailRoute ==
    /\ \E user \in Users, email \in RecipientFields, smtp_enabled \in BOOLEAN :
       \E celery_broker \in BOOLEAN, queue_fails \in BOOLEAN, outcome \in SendOutcomes :
       \E out \in {send_email_route(user, email, celery_broker, queue_fails, outcome)} :
          /\ call' = SendCall(user, email, smtp_enabled, celery_broker)
          /\ resp' = out
    /\ UNCHANGED <<mail, dispatchLog, quotes, deployment, caches, ret>>

NextSend == SendEmailRoute

SpecSend == InitSend /\ [][NextSend]_vars

----------------------------------------------------------------------------
(* The dimensional weight of a shipment as each creation path chooses it:  *)
(* Init draws the shipment, the actions apply the path's rule.             *)

OverrideFields == {Blank, Text, Num(-3), Num(0), Num(700)}

DimensionFields == {Blank, Num(0), Num(-2), Num(40)}

PiecesFields == {Blank, Num(5)}

\* the fields of a form posted to new_quote, and the same shipment as the
\* arguments of create_quote, where a field left out is 0 and pieces is 1
DimCalls ==
    {[fn |-> fn, weight_dim |-> o, length |-> l, width |-> w, height |-> h,
      pieces |-> p, returned |-> FALSE] :
        fn \in {"new_quote", "create_quote"}, o \in OverrideFields,
        l \in DimensionFields, w \in DimensionFields, h \in DimensionFields,
        p \in PiecesFields}

InitDim ==
    /\ quotes = <<>>
    /\ accessorialTable = StandardCatalog
    /\ airTables = {"ZipZone", "CostZone", "AirCostZone"}
    /\ mapsApiKey = None
    /\ placesProvider = Unused
    /\ hotshotRates = StandardHotshotRates
    /\ accCache = EmptySlot
    /\ airCache = EmptySlot
    /\ zipCache = <<>>
    /\ resp = NoResponse
    /\ call \in {c \in DimCalls : c.fn = "new_quote" \/ c.weight_dim # Text}
    /\ ret = 0
    /\ mail = NoMail
    /\ dispatchLog = <<>>

\* new_quote from the pieces field to weight_dim
NewQuoteWeightDim ==
    /\ call.fn = "new_quote"
    /\ ~call.returned
    /\ \E pc \in {ParsePieces(call.pieces)} :
       \E ln \in {_parse_dim("Length", call.length)} :
       \E wd \in {_parse_dim("Width", call.width)} :
       \E ht \in {_parse_dim("Height", call.height)} :
          ret' = ParseWeightDim(call.weight_dim, ln.val, wd.val, ht.val, pc.val).val
    /\ call' = [call EXCEPT !.returned = TRUE]
    /\ UNCHANGED <<mail, dispatchLog, quotes, deployment, caches, resp>>

\* create_quote down to dim_weight_val
CreateQuoteDimWeightVal ==
    /\ call.fn = "create_quote"
    /\ ~call.returned
    /\ ret' = DimWeightVal(Lb(call.weight_dim.val), call.length.val, call.width.val,
                           call.height.val, IF call.pieces = Blank THEN 1 ELSE call.pieces.val)
    /\ call' = [call EXCEPT !.returned = TRUE]
    /\ UNCHANGED <<mail, dispatchLog, quotes, deployment, caches, resp>>

NextDim == NewQuoteWeightDim \/ CreateQuoteDimWeightVal

SpecDim == InitDim /\ [][NextDim]_vars

----------------------------------------------------------------------------
(* The accessorial catalog and the missing-air-table list read through     *)
(* their caches while an administrator edits the tables and clears the     *)
(* caches.  Each call carries, for either cache, whether a read has been   *)
(* served since the last clear and what the last read returned.            *)

AirTableSets == {{"ZipZone", "CostZone", "AirCostZone"}, {"ZipZone", "AirCostZone"}, {}}

\* served: a read since the last clear; last: what the last read returned
Reads(served, last) == [served |-> served, last |-> last]

NoReads == Reads(FALSE, <<>>)

\* fn, the table contents it met, the reads of either cache up to and
\* including this call, and whether a read followed an earlier one with no
\* clear in between
CacheCall(fn, met, accessorial, air, repeated) ==
    [fn |-> fn, met |-> met, accessorial |-> accessorial, air |-> air, repeated |-> repeated]

InitCaches ==
    /\ quotes = <<>>
    /\ accessorialTable \in Catalogs
    /\ airTables \in AirTableSets
    /\ mapsApiKey = None
    /\ placesProvider = Unused
    /\ hotshotRates = StandardHotshotRates
    /\ accCache = EmptySlot
    /\ airCache = EmptySlot
    /\ zipCache = <<>>
    /\ resp = NoResponse
    /\ call = CacheCall("none", <<>>, NoReads, NoReads, FALSE)
    /\ ret = <<>>
    /\ mail = NoMail
    /\ dispatchLog = <<>>

\* an administrator edits the Accessorial rows
EditAccessorials ==
    /\ \E c \in Catalogs : c # accessorialTable /\ accessorialTable' = c
    /\ UNCHANGED <<mail, dispatchLog, quotes, airTables, mapsApiKey, placesProvider, hotshotRates,
                   caches, resp, call, ret>>

\* an administrator loads or empties air rate tables
EditAirTables ==
    /\ \E t \in AirTableSets : t # airTables /\ airTables' = t
    /\ UNCHANGED <<mail, dispatchLog, quotes, accessorialTable, mapsApiKey, placesProvider,
                   hotshotRates, caches, resp, call, ret>>

GetAccessorialChoices ==
    /\ \E slot \in {_accessorial_cache(accCache, accessorialTable)} :
          /\ accCache' = slot
          /\ ret' = slot.value
          /\ call' = CacheCall("_get_accessorial_choices", accessorialTable,
                               Reads(TRUE, slot.value), call.air, call.accessorial.served)
    /\ UNCHANGED <<mail, dispatchLog, quotes, deployment, airCache, zipCache, resp>>

GetMissingAirRateTables ==
    /\ \E slot \in {_air_rate_table_cache(airCache, airTables)} :
          /\ airCache' = slot
          /\ ret' = slot.value
          /\ call' = CacheCall("_get_missing_air_rate_tables", airTables,
                               call.accessorial, Reads(TRUE, slot.value), call.air.served)
    /\ UNCHANGED <<mail, dispatchLog, quotes, deployment, accCache, zipCache, resp>>

ClearAccessorialCache ==
    /\ accCache' = EmptySlot
    /\ call' = CacheCall("clear_accessorial_cache", <<>>,
                         Reads(FALSE, call.accessorial.last), call.air, FALSE)
    /\ UNCHANGED <<mail, dispatchLog, quotes, deployment, airCache, zipCache, resp, ret>>

ClearAirRateCache ==
    /\ airCache' = EmptySlot
    /\ call' = CacheCall("clear_air_rate_cache", <<>>, call.accessorial,
                         Reads(FALSE, call.air.last), FALSE)
    /\ UNCHANGED <<mail, dispatchLog, quotes, deployment, accCache, zipCache, resp, ret>>

NextCaches ==
    \/ EditAccessorials
    \/ EditAirTables
    \/ GetAccessorialChoices
    \/ GetMissingAirRateTables
    \/ ClearAccessorialCache
    \/ ClearAirRateCache

SpecCaches == InitCaches /\ [][NextCaches]_vars

----------------------------------------------------------------------------
(* send_email called again and again under configured rate limits, with    *)
(* time passing between the calls                                         *)

\* the most rows the dispatch log is let to reach
MaxDispatches == 2

\* feature, user id and recipient of a call; NoNumber is a call without user
MailArgs ==
    {<<"Quote_Email ", 1, "Ops@Example.com">>, <<"quote_email", NoNumber, " ops@example.com">>,
     <<"quote_email", 1, "other@example.com">>, <<"password_reset", 1, "ops@example.com">>}

LimitConfigs ==
    {NoLimits, MailLimits(1, 0, 0, 0), MailLimits(0, 2, 0, 0), MailLimits(0, 0, 2, 0),
     MailLimits(0, 0, 0, 1)}

LimitedOutcomes == {"ok", "SMTPConnectError", OTHER_SMTP_ERROR}

InitDispatch ==
    /\ quotes = <<>>
    /\ accessorialTable = StandardCatalog
    /\ airTables = {"ZipZone", "CostZone", "AirCostZone"}
    /\ mapsApiKey = None
    /\ placesProvider = Unused
    /\ hotshotRates = StandardHotshotRates
    /\ accCache = EmptySlot
    /\ airCache = EmptySlot
    /\ zipCache = <<>>
    /\ resp = NoResponse
    /\ call = NoCall
    /\ ret = Pending
    /\ mail = NoMail
    /\ dispatchLog = <<>>

\* an earlier call ended in an exception of the delivery loop
FailedEarlier ==
    \/ mail.pc = "raised" /\ mail.results # <<>>
    \/ call.fn = "send_email" /\ call.failed_earlier

\* send_email up to the loop, once the call before it has ended
SendEmailLimited ==
    /\ mail.pc \in {"idle", "sent", "raised"}
    /\ Len(dispatchLog) < MaxDispatches
    /\ \E args \in MailArgs, limits \in LimitConfigs :
          \E c \in {MailCall(args[1], args[2], args[3], limits, FailedEarlier)} :
             /\ call' = c
             /\ mail' = BeginSend(dispatchLog, c)
    /\ UNCHANGED <<quotes, deployment, caches, resp, ret, dispatchLog>>

\* one pass of the loop with the least jitter, and the dispatch entry when
\* the pass left it
DeliverLimited ==
    /\ mail.pc = "delivering"
    /\ mail.attempt < max_attempts
    /\ \E outcome \in LimitedOutcomes :
          \E m \in {DeliveryAttempt(mail, outcome, 0)} :
             /\ mail' = m
             /\ dispatchLog' = AfterLoop(dispatchLog, m, call)
    /\ UNCHANGED <<quotes, deployment, caches, resp, call, ret>>

\* between two calls an hour goes by: no row is of the last hour any more
HourPasses ==
    /\ mail.pc # "delivering"
    /\ \E i \in 1..Len(dispatchLog) : dispatchLog[i].created = "hour"
    /\ dispatchLog' = [i \in 1..Len(dispatchLog) |->
                         IF dispatchLog[i].created = "hour"
                         THEN [dispatchLog[i] EXCEPT !.created = "day"]
                         ELSE dispatchLog[i]]
    /\ UNCHANGED <<quotes, deployment, caches, resp, call, ret, mail>>

\* between two calls a day goes by: no row is of the last day any more
DayPasses ==
    /\ mail.pc # "delivering"
    /\ \E i \in 1..Len(dispatchLog) : dispatchLog[i].created # "older"
    /\ dispatchLog' = [i \in 1..Len(dispatchLog) |-> [dispatchLog[i] EXCEPT !.created = "older"]]
    /\ UNCHANGED <<quotes, deployment, caches, resp, call, ret, mail>>

NextDispatch == SendEmailLimited \/ DeliverLimited \/ HourPasses \/ DayPasses

SpecDispatch == InitDispatch /\ [][NextDispatch]_vars

----------------------------------------------------------------------------
(* Properties *)

Rows == {quotes[i] : i \in 1..Len(quotes)}

Metadata(q) == JsonLoads(q.quote_metadata)

LineItems(q) == Metadata(q).accessorials

Lines(text) == {text[i] : i \in 1..Len(text)}

\* the line items other than "Guarantee"
NotGuaranteeItem(p) == p[1] # "Guarantee"

OtherItems(q) == SelectSeq(LineItems(q), NotGuaranteeItem)

GuaranteeItem(q) ==
    IF "Guarantee" \in DictKeys(LineItems(q)) THEN DictValue(LineItems(q), "Guarantee")
    ELSE 0

\* an Air row priced by the rate lookup that carries the guarantee surcharge
GuaranteedAir(q) ==
    /\ q.quote_type = "Air"
    /\ "Guarantee" \in DictKeys(LineItems(q))
    /\ "error" \notin DictKeys(Metadata(q).details)

\* the stored amount of the catalog's guarantee accessorial
GuaranteeAmount(table) ==
    table[CHOOSE i \in 1..Len(table) : ContainsGuarantee(table[i].name)].amount

GuaranteePcts ==
    {ROUTE_GUARANTEE_PCT} \cup {GuaranteeAmount(c) : c \in Catalogs}

AirLinehauls == {o.linehaul + o.beyond : o \in {x \in AirRateOutcomes : ~x.failed}}

\* C1: a POST to new_quote that accumulated at least one validation error
\* ends with HTTP 400 carrying exactly the accumulated errors, calls no rate
\* calculation and adds no row to the Quote table.
C1_ValidationErrorsAbort ==
    [][(resp'.handler = "new_quote" /\ resp'.validation_errors # <<>>)
         => /\ resp'.status = 400
            /\ resp'.errors = resp'.validation_errors
            /\ ~resp'.rate_lookup
            /\ resp'.saved = 0
            /\ quotes' = quotes]_vars

C1_Witness ==
    /\ resp.handler = "new_quote"
    /\ resp.status = 400
    /\ Len(resp.validation_errors) = 4
    /\ resp.validation_errors[1] = "Origin ZIP must include at least 5 digits."
    /\ quotes = <<>>

\* C2: an Air POST to new_quote without validation errors for which a
\* required air-rate table is reported missing or empty is rejected with an
\* error: no air pricing is done and no row is added to the Quote table.
C2_MissingAirTablesReject ==
    [][(resp'.handler = "new_quote" /\ resp'.validation_errors = <<>>
          /\ resp'.missing_tables # <<>>)
         => /\ resp'.status = 400
            /\ resp'.errors # <<>>
            /\ ~resp'.rate_lookup
            /\ quotes' = quotes]_vars

\* C3: every stored row has weight = max(actual_weight, dim_weight), and
\* weight_method is "Dimensional" exactly when dim_weight is positive and is
\* that maximum, "Actual" otherwise.
C3_StoredWeightIsMax ==
    \A q \in Rows :
        /\ q.weight = Max(q.actual_weight, q.dim_weight)
        /\ q.weight_method =
             (IF q.dim_weight > 0 /\ q.dim_weight >= q.actual_weight
              THEN "Dimensional" ELSE "Actual")

C5_GuaranteeUsesStoredAmount ==
    \A q \in Rows :
        GuaranteedAir(q) =>
            GuaranteeItem(q) =
                PercentOf(q.total - Metadata(q).accessorial_total,
                          GuaranteeAmount(accessorialTable))

\* C6: a Hotshot row never carries a guarantee charge: none of its line
\* items is a guarantee accessorial.
C6_HotshotNoGuarantee ==
    \A q \in Rows :
        q.quote_type = "Hotshot" =>
            \A name \in DictKeys(LineItems(q)) : ~ContainsGuarantee(name)

\* C7: on every stored row the metadata's accessorial_total equals the sum of
\* the values of its accessorials.
C7_AccessorialTotalIsSum ==
    \A q \in Rows : Metadata(q).accessorial_total = SumValues(LineItems(q))

\* C8: check_thresholds returns THRESHOLD_WARNING exactly when the type is
\* Air (in any letter case) and weight > 1200, or weight > 3000, or
\* total > 6000, all strict, and the empty string otherwise.
C8_ThresholdWarningExact ==
    (call.fn = "check_thresholds" /\ ret # Pending) =>
        ret = (IF \/ call.quote_type \in {"Air", "air", "AIR"} /\ call.a > 1200 * 166
                  \/ call.a > 3000 * 166
                  \/ call.b > 6000 * 100
               THEN THRESHOLD_WARNING ELSE "")

C8_Witness ==
    /\ call.fn = "check_thresholds"
    /\ call.quote_type = "air"
    /\ call.a = 1200 * 166
    /\ call.b = 6000 * 100
    /\ ret = ""

\* C9: check_air_piece_limit returns AIR_PIECE_LIMIT_WARNING exactly when the
\* type is Air, pieces > 0 and max(actual_weight, dim_weight) / pieces > 300
\* strictly, and None otherwise.
C9_AirPieceLimitExact ==
    (call.fn = "check_air_piece_limit" /\ ret # Pending) =>
        ret = (IF /\ call.quote_type \in {"Air", "air", "AIR"}
                  /\ call.b > 0
                  /\ \/ call.a > 300 * 166 * call.b
                     \/ call.c > 300 * 166 * call.b
               THEN AIR_PIECE_LIMIT_WARNING ELSE None)

C9_Witness ==
    /\ call.fn = "check_air_piece_limit"
    /\ call.quote_type = "Air"
    /\ call.a = 400 * 166
    /\ call.b = 2
    /\ call.c = 650 * 166
    /\ ret = AIR_PIECE_LIMIT_WARNING

\* C10: a threshold warning never blocks persistence: a request or call whose
\* threshold check gave a warning saved its row, and every stored row whose
\* weight and pre-guarantee total exceed a limit has THRESHOLD_WARNING in
\* its warnings.
C10_ThresholdWarningPersisted ==
    /\ resp.exceeds_threshold =>
          /\ resp.status = 200
          /\ resp.saved \in 1..Len(quotes)
          /\ THRESHOLD_WARNING \in Lines(quotes[resp.saved].warnings)
    /\ \A q \in Rows :
          check_thresholds(q.quote_type, q.weight, q.total - GuaranteeItem(q)) # ""
              => THRESHOLD_WARNING \in Lines(q.warnings)

C10_Witness ==
    /\ resp.handler = "new_quote"
    /\ resp.exceeds_threshold
    /\ resp.saved = Len(quotes)
    /\ \E q \in Rows : q.id = resp.saved /\ THRESHOLD_WARNING \in Lines(q.warnings)

\* the key a direct call of validate_us_zip works with
ResolvedKey ==
    IF call.api_key # None THEN call.api_key
    ELSE IF mapsApiKey # None THEN mapsApiKey ELSE ""

DigitCount(zip_code) == Len(SelectSeq(zip_code, IsDigit))

\* C11: with no API key, validate_us_zip returns (True, "format_only") for an
\* input with at least 5 digits and (False, "invalid_format") for one with
\* fewer, and makes no request to the geocoding provider.
C11_FormatOnlyWithoutKey ==
    (call.fn = "validate_us_zip" /\ ResolvedKey = "") =>
        /\ ~ret.raised
        /\ ret.requests = 0
        /\ ret.result = (IF DigitCount(call.zip_code) >= 5
                         THEN <<TRUE, "format_only">>
                         ELSE <<FALSE, "invalid_format">>)

C11_Witness ==
    /\ call.fn = "validate_us_zip"
    /\ call.zip_code = ZipPlus4
    /\ call.api_key = None
    /\ mapsApiKey = None
    /\ ret.result = <<TRUE, "format_only">>
    /\ \E i \in 1..Len(zipCache) : zipCache[i].zip_code = ZipShort /\ zipCache[i].api_key = ""

\* the provider fails: a non-2xx answer, a status other than OK and
\* ZERO_RESULTS, a timeout or a connection error
ProviderFails(provider) ==
    \/ ~provider.http_ok
    \/ provider.status \notin {"OK", "ZERO_RESULTS"}
    \/ provider.raises # ""

\* C12: with an API key, a call of validate_us_zip that reaches a failing
\* provider returns (False, "places_error") and does not raise.
C12_FailsClosedOnProviderFailure ==
    [][(/\ call'.fn = "validate_us_zip"
        /\ placesProvider' = placesProvider
        /\ ProviderFails(placesProvider)
        /\ ret'.requests = 1)
         => (~ret'.raised /\ ret'.result = <<FALSE, "places_error">>)]_vars

Blanks(text) == \A i \in 1..Len(text) : text[i] \in Whitespace

\* C13: normalize_rate_set returns the input without its surrounding
\* whitespace and in lower case; None, the empty string and blank input give
\* "default"; the result is never empty; any other identifier is kept; and
\* normalizing the result again changes nothing.
C13_NormalizeRateSet ==
    (call.fn = "normalize_rate_set" /\ call.returned) =>
        LET raw == call.raw_value
        IN  /\ ret # <<>>
            /\ ret[1] \notin Whitespace /\ ret[Len(ret)] \notin Whitespace
            /\ \A i \in 1..Len(ret) : ret[i] # "A"
            /\ (raw = NoText \/ Blanks(raw)) => ret = DEFAULT_RATE_SET
            /\ (raw # NoText /\ ~Blanks(raw)) =>
                  \E i \in 1..Len(raw), j \in 1..Len(raw) :
                      /\ Blanks(SubSeq(raw, 1, i - 1))
                      /\ Blanks(SubSeq(raw, j + 1, Len(raw)))
                      /\ Len(ret) = j - i + 1
                      /\ \A k \in 1..Len(ret) :
                            ret[k] = (IF raw[i + k - 1] = "A" THEN "a"
                                      ELSE raw[i + k - 1])
            /\ normalize_rate_set(ret) = ret

C13_Witness ==
    /\ call.fn = "normalize_rate_set"
    /\ call.returned
    /\ call.raw_value = <<" ", "A", "\t">>
    /\ ret = <<"a">>

\* the rate set of the call has no row in the table
WithoutRows(table, rate_set) == \A i \in 1..Len(table) : table[i].rate_set # rate_set

ReadHandlers == {"api_get_quote", "lookup_quote", "email_request_form", "email_volume_request_form", "email_quote_to_me"}

\* C15: reading a quote never changes it.  Across every step of get_quote,
\* api_get_quote, lookup_quote, email_quote_to_me and the email request
\* forms the stored Quote rows (quote_metadata, total and warnings included)
\* stay as they were, the request runs no rate lookup, and a get_quote call
\* that repeats the one before it for the same quote_id returns the same
\* quote data.
C15_ReadsLeaveQuotesUnchanged ==
    [][/\ quotes' = quotes
       /\ ~resp'.rate_lookup
       /\ (call'.again /\ call'.quote_id = call.quote_id) => ret' = ret]_vars

\* a stored quote was shown by the booking email form, whose total carries
\* the administrative fee, and was then fetched twice by get_quote
C15_Witness ==
    /\ resp.handler = "email_request_form"
    /\ resp.status = 200
    /\ resp.total = resp.quote[1].total + BOOKING_ADMIN_FEE
    /\ call.again
    /\ ret = resp.quote

\* C16: for a stored quote whose quote_metadata is not valid JSON, every
\* read path (lookup_quote, api_get_quote, email_quote_to_me and the email
\* request forms) completes normally with an empty metadata object: the
\* decoding error never reaches the caller.
C16_MalformedMetadataTolerated ==
    /\ resp.raised # "json.JSONDecodeError"
    /\ (/\ resp.handler \in ReadHandlers
        /\ resp.quote # NoRow
        /\ resp.quote[1].quote_metadata = MalformedText)
       => /\ resp.status = 200
          /\ resp.metadata \in {<<>>, WithAccessorialTotal(<<>>)}

\* what the form path rejects: a ZIP of fewer than 5 digits, a negative
\* weight or dimension, no pieces, an air shipment over the per-piece limit
InvalidShipment(data) ==
    LET quote_type == DataGet(data, "quote_type", "Hotshot")
    IN  \/ DigitCount(data.origin) < ZIP_LEN
        \/ DigitCount(data.destination) < ZIP_LEN
        \/ data.weight < 0
        \/ DataGet(data, "length", 0) < 0
        \/ DataGet(data, "pieces", 1) < 1
        \/ check_air_piece_limit(quote_type, Lb(data.weight), DataGet(data, "pieces", 1),
                                 Lb(DataGet(data, "dim_weight", 0))) # None

\* C17: api_create_quote validates as the form path does.  A body with a
\* ZIP of fewer than 5 digits, a negative weight or dimension, pieces < 1
\* or an air shipment over 300 billable lb per piece is answered with HTTP
\* 400 and a list of error strings, and no Quote is persisted.
C17_ApiValidatesLikeForm ==
    (call.fn = "api_create_quote" /\ InvalidShipment(call.data))
    => /\ resp.status = 400
       /\ resp.errors # <<>>
       /\ resp.saved = 0

\* the request whose INSERT this step rejects
Rejected(r) == call[r].pc = "added" /\ call'[r].pc = "failed"

\* C18: under any interleaving of concurrent creations by new_quote and
\* create_quote no two persisted Quote rows share a public quote_id after
\* any step, and a
\* creation whose quote_id collides with an existing row is rejected by the
\* store with an integrity error and leaves no partial row behind.
C18_QuoteIdUnique ==
    [][/\ \A i, j \in 1..Len(quotes') :
             i # j => quotes'[i].quote_id # quotes'[j].quote_id
       /\ \A r \in RequestIds :
             /\ Rejected(r) => /\ quotes' = quotes
                               /\ call'[r].quote = NoRow
                               /\ resp'.errors = <<INTEGRITY_ERROR>>
             /\ (call[r].pc = "added" /\ call'[r].pc = "inserted")
                => ~UniqueViolation(quotes, call'[r].quote[1].quote_id)]_vars

\* both generated ids are taken by committed rows of the two handlers and a
\* third creation was rejected
C18_Witness ==
    /\ Len(quotes) = 2
    /\ {quotes[i].quote_type : i \in 1..Len(quotes)} = {"Air", "Hotshot"}
    /\ \E r \in RequestIds : call[r].pc = "failed"
    /\ resp.errors = <<INTEGRITY_ERROR>>

\* C19: every persisted Quote has quote_type "Hotshot" or "Air": no quote
\* is persisted for any other submitted quote_type value.
C19_QuoteTypeHotshotOrAir ==
    \A q \in Rows : q.quote_type \in {"Hotshot", "Air"}

\* C20: send_email makes at most 4 SMTP attempts.  Every attempt but the
\* last ended in a transient error and was followed by one warning and one
\* sleep of the k-th base delay 0.5 s, 1.0 s, 2.0 s plus a jitter of at most
\* a tenth of it; the call stops at the first successful attempt; and when
\* the 4th attempt fails too, that error is re-raised after exactly 3 sleeps
\* and 3 warnings.
C20_SendEmailRetries ==
    /\ Len(mail.results) <= 4
    /\ Len(mail.sleeps) = Len(mail.warnings)
    /\ \A k \in 1..Len(mail.sleeps) :
          /\ k < 4
          /\ mail.results[k] \in transient_errors
          /\ mail.sleeps[k] >= <<500, 1000, 2000>>[k]
          /\ 10 * (mail.sleeps[k] - <<500, 1000, 2000>>[k]) <= <<500, 1000, 2000>>[k]
    /\ \A k \in 1..Len(mail.results) :
          mail.results[k] = "ok" => k = Len(mail.results) /\ mail.pc = "sent"
    /\ mail.pc \in {"sent", "raised"} => Len(mail.results) = Len(mail.sleeps) + 1
    /\ mail.pc = "delivering" => Len(mail.results) = Len(mail.sleeps)
    /\ (mail.pc = "raised" /\ Len(mail.results) = 4)
       => /\ mail.raised = mail.results[4]
          /\ Len(mail.sleeps) = 3
          /\ Len(mail.warnings) = 3

\* three transient failures, each followed by its sleep, and a 4th failure
\* that is re-raised
C20_Witness ==
    /\ mail.pc = "raised"
    /\ Len(mail.results) = 4
    /\ mail.raised \in transient_errors
    /\ mail.sleeps = <<500, 1050, 2200>>


\* C21: when the quote-email SMTP setting is disabled, POST /send never
\* invokes send_email, even for a user with mail privileges (super_admin),
\* and the response redirects to /quotes/new.
C21_SendBlockedWhenSmtpDisabled ==
    (resp.handler = "send_email_route" /\ ~call.smtp_enabled)
       => /\ resp.send_calls = 0
          /\ ~resp.queued
          /\ resp.location = "/quotes/new"

LowerLetters ==
    <<"a", "b", "c", "d", "e", "f", "g", "h", "i", "j", "k", "l", "m", "n", "o", "p", "q", "r", "s", "t", "u", "v", "w", "x", "y", "z">>

UpperLetters ==
    <<"A", "B", "C", "D", "E", "F", "G", "H", "I", "J", "K", "L", "M", "N", "O", "P", "Q", "R", "S", "T", "U", "V", "W", "X", "Y", "Z">>

\* str.upper on one character
UpperChar(c) == IF \E i \in 1..26 : LowerLetters[i] = c THEN UpperLetters[CHOOSE i \in 1..26 : LowerLetters[i] = c] ELSE c

\* the readable public form Q-XXXXXXXX: "Q-" and 8 capitals or digits
ReadableQuoteId(text) ==
    /\ Len(text) = 10
    /\ text[1] = "Q"
    /\ text[2] = "-"
    /\ \A i \in 3..10 : text[i] \in Digits \/ \E k \in 1..26 : UpperLetters[k] = text[i]

\* the submitted value trimmed and upper-cased
NormalizedQuoteId(raw) == [i \in 1..Len(StripChars(raw)) |-> UpperChar(StripChars(raw)[i])]

\* C22: lookup_quote accepts public quote ids of the readable form
\* Q-XXXXXXXX.  It trims and case-normalizes the submitted value before
\* querying, so a value that differs from a stored quote_id only by letter
\* case or surrounding whitespace finds that quote; a well-formed id with no
\* matching row yields "Quote not found"; and only a malformed id yields
\* "Please enter a valid Quote ID."
C22_LookupAcceptsReadableIds ==
    (resp.handler = "lookup_quote" /\ call.fn = "lookup_quote")
       => LET id == NormalizedQuoteId(call.quote_id)
          IN  /\ (ReadableQuoteId(id) /\ FirstByQuoteId(quotes, id) # 0)
                 => /\ resp.template = "quote_result.html"
                    /\ resp.quote = <<quotes[FirstByQuoteId(quotes, id)]>>
              /\ (ReadableQuoteId(id) /\ FirstByQuoteId(quotes, id) = 0)
                 => resp.flash = QUOTE_NOT_FOUND
              /\ resp.flash = INVALID_QUOTE_ID => ~ReadableQuoteId(id)

\* the value of a submitted field, 0 when it is left out
Supplied(field) == IF field.kind = "num" THEN field.val ELSE 0

\* C23: on both creation paths the dimensional weight is chosen by the same
\* three-way rule: the supplied override when it is supplied and > 0;
\* otherwise (length * width * height / 166) * pieces when length, width
\* and height are all > 0; otherwise 0.  In particular an override that is
\* 0 or negative, together with three positive dimensions, yields the
\* dimension-derived value, and a negative override is never used.
C23_DimWeightThreeWayRule ==
    (call.fn \in {"new_quote", "create_quote"} /\ call.returned /\ call.weight_dim # Text)
       => LET override == Supplied(call.weight_dim)
              length == Supplied(call.length)
              width == Supplied(call.width)
              height == Supplied(call.height)
              pieces == IF call.pieces = Blank THEN 1 ELSE call.pieces.val
          IN  /\ ret >= 0
              /\ ret = IF override > 0 THEN Lb(override)
                       ELSE IF length > 0 /\ width > 0 /\ height > 0
                       THEN length * width * height * pieces
                       ELSE 0

\* C24: the general threshold check runs on the final total, after the
\* accessorial and guarantee calculation: for every persisted Quote the
\* stored warnings contain THRESHOLD_WARNING exactly when
\* check_thresholds(quote_type, weight, total) on the stored values is
\* non-empty, so the exceeds_threshold flag shown at creation equals the flag
\* that lookup_quote and _quote_template_context recompute for that quote.
C24_ThresholdOnFinalTotal ==
    /\ \A q \in Rows :
          THRESHOLD_WARNING \in Lines(q.warnings)
              <=> check_thresholds(q.quote_type, q.weight, q.total) # ""
    /\ (resp.handler = "new_quote" /\ resp.status = 200 /\ resp.saved \in 1..Len(quotes))
          => resp.exceeds_threshold
                = lookup_quote(<<StoredQuote(quotes[resp.saved], QuoteIdOne,
                                             quotes[resp.saved].quote_metadata)>>,
                               QuoteIdOne).resp.exceeds_threshold

\* the zones of the rows of a rate set that have the smallest miles
\* threshold >= miles
NearestZones(table, rate_set, miles) ==
    {table[i].zone : i \in {k \in 1..Len(table) :
        /\ table[k].rate_set = rate_set
        /\ table[k].miles >= miles
        /\ \A j \in 1..Len(table) :
              (table[j].rate_set = rate_set /\ table[j].miles >= miles)
                  => table[k].miles <= table[j].miles}}

\* the table without the rows of the default rate set
NotDefaultRow(row) == row.rate_set # RATE_SET_DEFAULT

C26_ZipResultsCachedForGood ==
    \A e \in call.earlier :
        (e.zip_code = call.zip_code /\ e.api_key = call.api_key)
            => /\ ~ret.raised
               /\ ret.result = e.result
               /\ ret.requests = 0

\* C27: the accessorial catalog and the missing-air-table list are computed
\* on first use and then served unchanged across requests whatever edits are
\* made to the underlying tables; after clear_accessorial_cache
\* (respectively clear_air_rate_cache) the next call of
\* _get_accessorial_choices (respectively _get_missing_air_rate_tables)
\* reflects the current table contents.
C27_CachesServeUntilCleared ==
    [][/\ call'.fn = "_get_accessorial_choices" =>
             ret' = IF call.accessorial.served THEN call.accessorial.last
                    ELSE AccessorialLookup(accessorialTable)
       /\ call'.fn = "_get_missing_air_rate_tables" =>
             ret' = IF call.air.served THEN call.air.last
                    ELSE MissingAirTables(airTables)]_vars

\* a repeated read of the catalog after an edit with no clear in between
\* returned what the read before it returned, not what the table holds
C27_Witness ==
    /\ call.fn = "_get_accessorial_choices"
    /\ call.repeated
    /\ call.met = RepricedCatalog
    /\ ret = AccessorialLookup(StandardCatalog)
    /\ airCache.cached

\* the rate set has a row that covers the distance
Covered(table, rate_set, miles) ==
    \E i \in 1..Len(table) : table[i].rate_set = rate_set /\ table[i].miles >= miles

\* C28: for every rate set r other than "default", mileage m and table, when
\* the zone returned by get_hotshot_zone_by_miles(m, rate_set=r) is passed
\* to get_current_hotshot_rate(zone, rate_set=r), the row that determined
\* the zone and the row that supplies the rate belong to the same rate set:
\* the two fallbacks never mix a zone chosen from one set with a rate row
\* from the other.
C28_ZoneAndRateFromSameSet ==
    (/\ call.fn = "get_current_hotshot_rate"
     /\ call.returned
     /\ call.miles > 0
     /\ call.rate_set # RATE_SET_DEFAULT
     /\ ~ret.raised
     /\ Covered(hotshotRates, call.rate_set, call.miles)
           \/ Covered(hotshotRates, RATE_SET_DEFAULT, call.miles))
        => ret.row.rate_set = IF Covered(hotshotRates, call.rate_set, call.miles)
                              THEN call.rate_set ELSE RATE_SET_DEFAULT

\* C29: when the hotshot rate calculation raises ValueError the two creation
\* paths differ.  new_quote does not abort: it appends the error text to the
\* warnings and persists a Quote with total 0.0.  create_quote re-raises
\* ValueError, prefixed "Hotshot quote calculation failed", and persists
\* nothing.
C29_HotshotErrorByPath ==
    [][/\ (/\ call'.fn = "new_quote"
           /\ resp'.handler = "new_quote"
           /\ resp'.rate_lookup
           /\ Lower(call'.quote_type) # "air"
           /\ call'.failed)
          => /\ resp'.status = 200
             /\ Len(quotes') = Len(quotes) + 1
             /\ resp'.saved = Len(quotes')
             /\ quotes'[Len(quotes')].total = 0
             /\ HOTSHOT_RATE_ERROR \in Lines(quotes'[Len(quotes')].warnings)
       /\ (/\ call'.fn = "create_quote"
           /\ resp'.handler = "create_quote"
           /\ call'.quote_type # "Air"
           /\ call'.failed)
          => /\ quotes' = quotes
             /\ resp'.saved = 0
             /\ resp'.errors = <<"Hotshot quote calculation failed: " \o HOTSHOT_RATE_ERROR>>]_vars

\* a hotshot form whose rate lookup found nothing was saved with total 0
C29_Witness ==
    /\ call.fn = "new_quote"
    /\ call.quote_type = "Hotshot"
    /\ call.failed
    /\ resp.handler = "new_quote"
    /\ resp.status = 200
    /\ resp.saved = 1
    /\ quotes[1].total = 0
    /\ quotes[1].warnings = <<HOTSHOT_RATE_ERROR>>

----------------------------------------------------------------------------
\* some configured limit is reached by the rows that count for call c
LimitReached(log, c) ==
    LET Counted(by_user, by_recipient, windows) ==
            Cardinality({i \in 1..Len(log) :
                /\ log[i].feature = _normalize_feature(c.feature)
                /\ by_user => log[i].user_id = c.user_id
                /\ by_recipient => log[i].recipient = _normalize_recipient(c.to)
                /\ log[i].created \in windows})
    IN  \/ c.user_id # NoNumber /\ c.limits.per_user_hour > 0
           /\ Counted(TRUE, FALSE, {"hour"}) >= c.limits.per_user_hour
        \/ c.user_id # NoNumber /\ c.limits.per_user_day > 0
           /\ Counted(TRUE, FALSE, {"hour", "day"}) >= c.limits.per_user_day
        \/ c.limits.per_recipient_day > 0
           /\ Counted(FALSE, TRUE, {"hour", "day"}) >= c.limits.per_recipient_day
        \/ c.limits.per_feature_hour > 0
           /\ Counted(FALSE, FALSE, {"hour"}) >= c.limits.per_feature_hour

\* the step is the start of a send_email call
CallBegins ==
    /\ mail.pc # "delivering"
    /\ call'.fn = "send_email"
    /\ mail'.results = <<>>
    /\ mail' # mail \/ call' # call

\* C30: in send_email the rate limits are enforced before any SMTP attempt:
\* a call that finds a limit reached raises MailRateLimitError with no
\* attempt made and no row written, and a call that finds none goes on to
\* the delivery loop.  A row of EmailDispatchLog is written exactly once per
\* call and only by the pass of the loop whose attempt succeeded: it is the
\* row of that call, the rows before it stay, and a call that ends in an
\* exception (every attempt failed, or an error that is not transient)
\* leaves the table as it was, so that it never counts for a later limit.
C30_DispatchLoggedOnlyAfterSuccess ==
    [][/\ CallBegins =>
            /\ dispatchLog' = dispatchLog
            /\ IF LimitReached(dispatchLog, call')
               THEN mail'.pc = "raised" /\ mail'.raised = "MailRateLimitError"
               ELSE mail'.pc = "delivering" /\ mail'.raised = ""
       /\ mail'.raised = "MailRateLimitError" => mail'.results = <<>>
       /\ (mail.pc = "delivering" /\ mail'.pc = "sent") =>
            /\ mail'.results[Len(mail'.results)] = "ok"
            /\ Len(dispatchLog') = Len(dispatchLog) + 1
            /\ SubSeq(dispatchLog', 1, Len(dispatchLog)) = dispatchLog
            /\ dispatchLog'[Len(dispatchLog')].feature = _normalize_feature(call.feature)
            /\ dispatchLog'[Len(dispatchLog')].recipient = _normalize_recipient(call.to)
            /\ dispatchLog'[Len(dispatchLog')].user_id = call.user_id
       /\ Len(dispatchLog') # Len(dispatchLog) => mail.pc = "delivering" /\ mail'.pc = "sent"
       /\ mail'.pc = "raised" => Len(dispatchLog') = Len(dispatchLog)
       /\ (mail.pc = "delivering" /\ mail'.pc = "raised") =>
            /\ dispatchLog' = dispatchLog
            /\ \A i \in 1..Len(mail'.results) : mail'.results[i] # "ok"
      ]_vars

\* a call is refused by the hourly limit of one per user after one earlier
\* call failed in the delivery loop and one was delivered: the table holds
\* the delivered call only, and no attempt was made for the refused call
C30_Witness ==
    /\ call.fn = "send_email"
    /\ call.limits = MailLimits(1, 0, 0, 0)
    /\ call.failed_earlier
    /\ mail.raised = "MailRateLimitError"
    /\ mail.results = <<>>
    /\ Len(dispatchLog) = 1

====
